---- MODULE Spec2Model ----
(***************************************************************************)
(* Model of src/web_server.py: the users, known_contacts and               *)
(* connection_requests tables of the social graph, the conversations,      *)
(* conversation_members, messages and conversation_reads tables of the     *)
(* chat, the posts, comments, post_likes and reports tables of the feed    *)
(* and its moderation, and the request handlers that read and write them;  *)
(* and of src/backup_sqlite.py: the snapshots of the backup directory.     *)
(*                                                                         *)
(* Every handler opens its own SQLite connection (get_conn) and FastAPI    *)
(* runs the handlers on a thread pool, so handlers interleave.  A SELECT   *)
(* outside a transaction reads the latest committed state; the first       *)
(* INSERT/UPDATE/DELETE opens a transaction that conn.commit() applies as  *)
(* one step, and an uncaught sqlite3.IntegrityError leaves the handler     *)
(* before commit(), so nothing of its transaction is applied.  A handler   *)
(* is therefore a sequence of read steps followed by one atomic write      *)
(* step.                                                                   *)
(***************************************************************************)
EXTENDS Integers, FiniteSets, Sequences, TLC

\* The ids the users table hands out (AUTOINCREMENT: 1, 2, never reused).
\* The operations of the social graph act on an ordered pair of users.
UserIds == {1, 2}
\* How many connection_requests rows are ever inserted (AUTOINCREMENT ids).
MaxRequests == 2
\* The handlers that may be between their first SELECT and their commit at
\* the same time.
Workers == {"w1", "w2"}

VARIABLES
    users,                \* ids of the rows of table users
    seq_users,            \* last AUTOINCREMENT id given to a users row
    known_contacts,       \* rows of known_contacts, as <<user_id, known_user_id>>
    connection_requests,  \* id -> [requester_user_id, receiver_user_id, status]
    seq_requests,         \* last AUTOINCREMENT id given to a connection_requests row
    conversations,        \* id -> [type, name, created_by_user_id]
    seq_conversations,    \* last AUTOINCREMENT id given to a conversations row
    conversation_members, \* rows of conversation_members, as <<conversation_id, user_id>>
    messages,             \* id -> [conversation_id, sender_user_id, conteudo, file_url]
    seq_messages,         \* last AUTOINCREMENT id given to a messages row
    conversation_reads,   \* <<conversation_id, user_id>> -> last_read_message_id
    role,                 \* column role of users: id -> "admin", "lider" or "membro"
    approved,             \* column approved of users: id -> 0 or 1
    posts,                \* id -> [user_id]
    seq_posts,            \* last AUTOINCREMENT id given to a posts row
    comments,             \* id -> [post_id, user_id]
    seq_comments,         \* last AUTOINCREMENT id given to a comments row
    post_likes,           \* rows of post_likes, as <<post_id, user_id>>
    reports,              \* id -> [reporter_user_id, target_type, target_id, status]
    seq_reports,          \* last AUTOINCREMENT id given to a reports row
    backups,              \* files of BACKUP_DIR, as [prefix, stamp, mtime]
    clock,                \* [stamp, mtime]: the second of the last backup, and
                          \* the modification time of the last file written
    pc,                   \* where each handler in flight is
    loc,                  \* the local variables of each handler in flight
    last                  \* the handler that completed last, and its outcome

vars == <<users, seq_users, known_contacts, connection_requests, seq_requests,
          conversations, seq_conversations, conversation_members, messages,
          seq_messages, conversation_reads, role, approved, posts, seq_posts,
          comments, seq_comments, post_likes, reports, seq_reports, backups,
          clock, pc, loc, last>>
\* The tables of the chat.
chat == <<conversations, seq_conversations, conversation_members, messages,
          seq_messages, conversation_reads>>
\* The tables of the feed and of its moderation.
content == <<posts, seq_posts, comments, seq_comments, post_likes, reports,
             seq_reports>>
\* The columns role and approved of table users, the feed, the backup
\* directory.
rest == <<role, approved, content, backups, clock>>
db == <<users, seq_users, known_contacts, connection_requests, seq_requests,
        chat, rest>>

PENDENTE == "pendente"
ACEITA == "aceita"
RECUSADA == "recusada"

\* Ids a request_id path parameter can carry.
RequestIds == 1..MaxRequests
NoLoc == [user |-> 0, target |-> 0, rid |-> 0]
Outcome(op, u, t, rid, r) ==
    [op |-> op, user |-> u, target |-> t, rid |-> rid, result |-> r]

\* request.session.get("user_id"): a signed cookie, still valid after the
\* user row is deleted by an admin, so any id ever registered may act.
SessionUsers == 1..seq_users

\* The thread pool hands a request to a free thread.
Idle == {w \in Workers : pc[w] = "idle"}
FreeWorker == CHOOSE w \in Idle : TRUE

----------------------------------------------------------------------------
\* SQL statements as operators on table values.

\* SELECT 1 FROM known_contacts WHERE user_id = a AND known_user_id = b
can_users_chat(kc, user_a_id, user_b_id) ==
    IF user_a_id = user_b_id THEN TRUE ELSE <<user_a_id, user_b_id>> \in kc

\* The SELECT of the pending request without AND status = 'pendente'.
PendingIds_AnyStatus(cr, a, b) ==
    {i \in DOMAIN cr : /\ cr[i].requester_user_id = a
                       /\ cr[i].receiver_user_id = b}

\* SELECT id FROM connection_requests WHERE requester = a AND receiver = b
\*   AND status = 'pendente'
PendingIds(cr, a, b) ==
    {i \in DOMAIN cr : /\ cr[i].requester_user_id = a
                       /\ cr[i].receiver_user_id = b
                       /\ cr[i].status = PENDENTE}

\* cursor.fetchone() on that SELECT: the id of the first row, 0 for None.
FetchPending(cr, a, b) ==
    IF PendingIds(cr, a, b) = {} THEN 0
    ELSE CHOOSE i \in PendingIds(cr, a, b) : \A j \in PendingIds(cr, a, b) : i <= j

\* connection_requests without its UNIQUE constraint.
RequestUniqueViolation_Off(cr, a, b) == FALSE

\* UNIQUE(requester_user_id, receiver_user_id) of connection_requests.
RequestUniqueViolation(cr, a, b) ==
    \E i \in DOMAIN cr : cr[i].requester_user_id = a /\ cr[i].receiver_user_id = b

\* UNIQUE(user_id, known_user_id) of known_contacts.
KnownUniqueViolation(kc, a, b) == <<a, b>> \in kc

\* UPDATE connection_requests SET status = st WHERE id = rid
UpdateStatus(cr, rid, st) ==
    [i \in DOMAIN cr |-> IF i = rid THEN [cr[i] EXCEPT !.status = st] ELSE cr[i]]

\* INSERT INTO connection_requests (...) VALUES (a, b, 'pendente', now)
InsertRequest(cr, id, a, b) ==
    [i \in DOMAIN cr \cup {id} |->
        IF i = id
        THEN [requester_user_id |-> a, receiver_user_id |-> b, status |-> PENDENTE]
        ELSE cr[i]]

\* accept_connection_request without its second INSERT OR IGNORE.
AcceptInsertKnown_OneSide(kc, user_id, requester_id) ==
    kc \cup {<<user_id, requester_id>>}

\* The two INSERT OR IGNORE INTO known_contacts of accept_connection_request.
AcceptInsertKnown(kc, user_id, requester_id) ==
    kc \cup {<<user_id, requester_id>>, <<requester_id, user_id>>}

\* remove_connection without its second DELETE.
RemoveKnown_OneSide(kc, user_id, target_user_id) ==
    kc \ {<<user_id, target_user_id>>}

\* remove_connection with both DELETEs given (target, user).
RemoveKnown_MirrorOnly(kc, user_id, target_user_id) ==
    kc \ {<<target_user_id, user_id>>}

\* The two DELETE FROM known_contacts of remove_connection.
RemoveKnown(kc, user_id, target_user_id) ==
    kc \ {<<user_id, target_user_id>>, <<target_user_id, user_id>>}

\* reject_connection_request without AND status = 'pendente'.
RejectMatches_AnyStatus(cr, rid, user_id) ==
    /\ rid \in DOMAIN cr
    /\ cr[rid].receiver_user_id = user_id

\* WHERE id = ? AND receiver_user_id = ? AND status = 'pendente' of
\* reject_connection_request.
RejectMatches(cr, rid, user_id) ==
    /\ rid \in DOMAIN cr
    /\ cr[rid].receiver_user_id = user_id
    /\ cr[rid].status = PENDENTE

\* accept_connection_request without the receiver check.
AcceptInvalid_NoReceiverCheck(cr, rid, user_id) ==
    \/ rid \notin DOMAIN cr
    \/ cr[rid].status # PENDENTE

\* not req or req.receiver_user_id != user_id or req.status != 'pendente'
AcceptInvalid(cr, rid, user_id) ==
    \/ rid \notin DOMAIN cr
    \/ cr[rid].receiver_user_id # user_id
    \/ cr[rid].status # PENDENTE

\* delete_user_account_data: the rows of the tables that name the user.
DeleteUserKnown(kc, t) == {e \in kc : e[1] # t /\ e[2] # t}
DeleteUserRequests(cr, t) ==
    [i \in {j \in DOMAIN cr : /\ cr[j].requester_user_id # t
                              /\ cr[j].receiver_user_id # t} |-> cr[i]]
\* DELETE FROM conversation_reads WHERE user_id = t
DeleteUserReads(rd, t) == [k \in {j \in DOMAIN rd : j[2] # t} |-> rd[k]]
\* DELETE FROM messages WHERE sender_user_id = t
DeleteUserMessages(ms, t) ==
    [i \in {j \in DOMAIN ms : ms[j].sender_user_id # t} |-> ms[i]]
\* delete_user_account_data without its DELETE FROM conversation_members.
DeleteUserMembers_Keep(cm, t) == cm
\* DELETE FROM conversation_members WHERE user_id = t
DeleteUserMembers(cm, t) == {e \in cm : e[2] # t}
\* delete_user_account_data without its DELETE FROM conversations.
DeleteEmptyConversations_Keep(cv, cm) == cv
\* DELETE FROM conversations WHERE id NOT IN (SELECT DISTINCT conversation_id
\*   FROM conversation_members)
DeleteEmptyConversations(cv, cm) ==
    [c \in {d \in DOMAIN cv : \E e \in cm : e[1] = d} |-> cv[c]]

ADMIN == "admin"
LIDER == "lider"
MEMBRO == "membro"
ABERTO == "aberto"
RESOLVIDO == "resolvido"

\* DELETE FROM <table> WHERE id IN ids
DeleteRows(tbl, ids) == [i \in DOMAIN tbl \ ids |-> tbl[i]]
\* SELECT id FROM comments WHERE user_id = t
OwnComments(cs, t) == {c \in DOMAIN cs : cs[c].user_id = t}
\* SELECT id FROM posts WHERE user_id = t
OwnPosts(ps, t) == {p \in DOMAIN ps : ps[p].user_id = t}
\* DELETE FROM comments WHERE post_id = ?, for each id of post_ids
DeletePostComments(cs, post_ids) ==
    DeleteRows(cs, {c \in DOMAIN cs : cs[c].post_id \in post_ids})
\* DELETE FROM post_likes WHERE post_id = ?, for each id of post_ids
DeletePostLikes(lk, post_ids) == {e \in lk : e[1] \notin post_ids}
\* DELETE FROM reports WHERE target_type = type AND target_id = ?, for each
\* id of ids
DeleteTargetReports(rp, type, ids) ==
    DeleteRows(rp, {r \in DOMAIN rp : /\ rp[r].target_type = type
                                      /\ rp[r].target_id \in ids})
\* The rows of other users that hang on the posts post_ids: their comments,
\* their likes and their reports on these posts.
OthersOnPosts(cs, lk, rp, post_ids, t) ==
    Cardinality({c \in DOMAIN cs : cs[c].post_id \in post_ids /\ cs[c].user_id # t})
    + Cardinality({e \in lk : e[1] \in post_ids /\ e[2] # t})
    + Cardinality({r \in DOMAIN rp : /\ rp[r].target_type = "post"
                                     /\ rp[r].target_id \in post_ids
                                     /\ rp[r].reporter_user_id # t})
\* delete_user_account_data without the DELETE FROM comments WHERE post_id.
DeleteUserComments_OwnOnly(cs, ps, t) == DeleteRows(cs, OwnComments(cs, t))
\* delete_user_account_data, lines 596-611: the comments of the user and the
\* reports on them, then what hangs on the posts of the user, then the posts,
\* the likes and the reports of the user.
DeleteUserComments(cs, ps, t) ==
    DeletePostComments(DeleteRows(cs, OwnComments(cs, t)), OwnPosts(ps, t))
DeleteUserPosts(ps, t) == DeleteRows(ps, OwnPosts(ps, t))
DeleteUserLikes(lk, ps, t) ==
    {e \in DeletePostLikes(lk, OwnPosts(ps, t)) : e[2] # t}
DeleteUserReports(rp, cs, ps, t) ==
    LET on_comments == DeleteTargetReports(rp, "comment", OwnComments(cs, t))
        on_posts == DeleteTargetReports(on_comments, "post", OwnPosts(ps, t))
    IN  DeleteRows(on_posts, {r \in DOMAIN on_posts :
                                 on_posts[r].reporter_user_id = t})
\* DELETE FROM users WHERE id = t, on the columns role and approved.
DeleteUserColumn(col, t) == [i \in DOMAIN col \ {t} |-> col[i]]

----------------------------------------------------------------------------
\* The feed tables as init_db creates them, and an empty BACKUP_DIR.
NoContent ==
    /\ posts = <<>>
    /\ seq_posts = 0
    /\ comments = <<>>
    /\ seq_comments = 0
    /\ post_likes = {}
    /\ reports = <<>>
    /\ seq_reports = 0
    /\ backups = {}
    /\ clock = [stamp |-> 0, mtime |-> 0]

Init ==
    /\ users = {}
    /\ seq_users = 0
    /\ known_contacts = {}
    /\ connection_requests = <<>>
    /\ seq_requests = 0
    /\ conversations = <<>>
    /\ seq_conversations = 0
    /\ conversation_members = {}
    /\ messages = <<>>
    /\ seq_messages = 0
    /\ conversation_reads = <<>>
    /\ role = <<>>
    /\ approved = <<>>
    /\ NoContent
    /\ pc = [w \in Workers |-> "idle"]
    /\ loc = [w \in Workers |-> NoLoc]
    /\ last = Outcome("none", 0, 0, 0, "none")

\* A handler that answers without a second step.
Answer(op, u, t, rid, r) ==
    /\ last' = Outcome(op, u, t, rid, r)
    /\ UNCHANGED <<pc, loc>>

\* A handler in flight answers.
Finish(w, op, u, t, rid, r) ==
    /\ pc' = [pc EXCEPT ![w] = "idle"]
    /\ loc' = [loc EXCEPT ![w] = NoLoc]
    /\ last' = Outcome(op, u, t, rid, r)

\* register, lines 775-777: default_role and approved from the COUNT(*) of
\* users.
default_role(total_users) == IF total_users = 0 THEN ADMIN ELSE MEMBRO
default_approved(total_users) == IF total_users = 0 THEN 1 ELSE 0
\* INSERT INTO users (..., role, approved, ...), the id from AUTOINCREMENT.
InsertUser(col, id, value) ==
    [i \in DOMAIN col \cup {id} |-> IF i = id THEN value ELSE col[i]]

\* register with no other commit between its SELECT COUNT(*) and its INSERT.
Register ==
    /\ seq_users + 1 \in UserIds
    /\ seq_users' = seq_users + 1
    /\ users' = users \cup {seq_users + 1}
    /\ role' = InsertUser(role, seq_users + 1,
                          default_role(Cardinality(users)))
    /\ approved' = InsertUser(approved, seq_users + 1,
                              default_approved(Cardinality(users)))
    /\ Answer("register", seq_users + 1, 0, 0, "ok")
    /\ UNCHANGED <<known_contacts, connection_requests, seq_requests, chat,
                   content, backups, clock>>

\* delete_user_account_data(t) on the tables, rl the column role as the
\* caller left it; committed by the caller.
DeleteUserData(t, rl) ==
    /\ known_contacts' = DeleteUserKnown(known_contacts, t)
    /\ connection_requests' = DeleteUserRequests(connection_requests, t)
    /\ conversation_reads' = DeleteUserReads(conversation_reads, t)
    /\ messages' = DeleteUserMessages(messages, t)
    /\ conversation_members' = DeleteUserMembers(conversation_members, t)
    /\ conversations' =
           DeleteEmptyConversations(conversations,
                                    DeleteUserMembers(conversation_members, t))
    /\ comments' = DeleteUserComments(comments, posts, t)
    /\ post_likes' = DeleteUserLikes(post_likes, posts, t)
    /\ reports' = DeleteUserReports(reports, comments, posts, t)
    /\ posts' = DeleteUserPosts(posts, t)
    /\ users' = users \ {t}
    /\ role' = DeleteUserColumn(rl, t)
    /\ approved' = DeleteUserColumn(approved, t)
    /\ UNCHANGED <<seq_users, seq_requests, seq_conversations, seq_messages,
                   seq_posts, seq_comments, seq_reports, backups, clock>>

\* delete_profile (the session user) and reject_user_registration (an admin,
\* for any target id): delete_user_account_data(t) and commit, one
\* transaction.  The caller's users row must exist.  The outcome records how
\* many posts of t were deleted and how many rows of other users with them.
DeleteAccount(t) ==
    /\ users # {}
    /\ DeleteUserData(t, role)
    /\ Answer("delete", t, Cardinality(OwnPosts(posts, t)),
              OthersOnPosts(comments, post_likes, reports, OwnPosts(posts, t), t),
              "ok")

----------------------------------------------------------------------------
\* send_connection_request(target_user_id), session user u.

\* Lines 1811-1823: the self check, then SELECT id FROM users.
SendBegin(u, t) ==
    /\ IF t = u
       THEN Answer("send", u, t, 0, "self_target")
       ELSE IF t \notin users
       THEN Answer("send", u, t, 0, "not_found")
       ELSE /\ Idle # {}
            /\ pc' = [pc EXCEPT ![FreeWorker] = "send_known"]
            /\ loc' = [loc EXCEPT ![FreeWorker] =
                          [user |-> u, target |-> t, rid |-> 0]]
            /\ UNCHANGED last
    /\ UNCHANGED db

\* Lines 1825-1833: SELECT id FROM known_contacts.
SendCheckKnown(w) ==
    /\ pc[w] = "send_known"
    /\ IF <<loc[w].user, loc[w].target>> \in known_contacts
       THEN Finish(w, "send", loc[w].user, loc[w].target, 0, "already_connected")
       ELSE /\ pc' = [pc EXCEPT ![w] = "send_same"]
            /\ UNCHANGED <<loc, last>>
    /\ UNCHANGED db

\* Lines 1835-1846: SELECT the pending request in the same direction.
SendCheckSame(w) ==
    /\ pc[w] = "send_same"
    /\ IF FetchPending(connection_requests, loc[w].user, loc[w].target) # 0
       THEN Finish(w, "send", loc[w].user, loc[w].target, 0, "duplicate_pending")
       ELSE /\ pc' = [pc EXCEPT ![w] = "send_opposite"]
            /\ UNCHANGED <<loc, last>>
    /\ UNCHANGED db

\* Lines 1848-1856: SELECT the pending request in the opposite direction.
SendCheckOpposite(w) ==
    /\ pc[w] = "send_opposite"
    /\ LET opp == FetchPending(connection_requests, loc[w].target, loc[w].user)
       IN  IF opp # 0
           THEN /\ pc' = [pc EXCEPT ![w] = "send_accept"]
                /\ loc' = [loc EXCEPT ![w].rid = opp]
           ELSE /\ pc' = [pc EXCEPT ![w] = "send_insert"]
                /\ UNCHANGED loc
    /\ UNCHANGED <<db, last>>

\* Lines 1857-1872: UPDATE the opposite request, two plain INSERTs into
\* known_contacts, commit.  A UNIQUE violation raises before commit().
SendAutoAccept(w) ==
    /\ pc[w] = "send_accept"
    /\ LET u == loc[w].user
           t == loc[w].target
       IN  IF \/ KnownUniqueViolation(known_contacts, u, t)
              \/ KnownUniqueViolation(known_contacts \cup {<<u, t>>}, t, u)
           THEN /\ Finish(w, "send", u, t, loc[w].rid, "integrity_error")
                /\ UNCHANGED db
           ELSE /\ connection_requests' =
                       UpdateStatus(connection_requests, loc[w].rid, ACEITA)
                /\ known_contacts' = known_contacts \cup {<<u, t>>, <<t, u>>}
                /\ Finish(w, "send", u, t, loc[w].rid, "auto_accepted")
                /\ UNCHANGED <<users, seq_users, rest, seq_requests, chat>>

\* Lines 1874-1885: INSERT the pending request, commit.
SendInsert(w) ==
    /\ pc[w] = "send_insert"
    /\ LET u == loc[w].user
           t == loc[w].target
       IN  IF RequestUniqueViolation(connection_requests, u, t)
           THEN /\ Finish(w, "send", u, t, 0, "integrity_error")
                /\ UNCHANGED db
           ELSE /\ seq_requests < MaxRequests
                /\ seq_requests' = seq_requests + 1
                /\ connection_requests' =
                       InsertRequest(connection_requests, seq_requests + 1, u, t)
                /\ Finish(w, "send", u, t, seq_requests + 1, "sent")
                /\ UNCHANGED <<users, seq_users, rest, known_contacts, chat>>

----------------------------------------------------------------------------
\* accept_connection_request(request_id), session user u.

\* Lines 1896-1910: SELECT the request, check receiver and status.
AcceptBegin(u, rid) ==
    /\ IF AcceptInvalid(connection_requests, rid, u)
       THEN Answer("accept", u, 0, rid, "invalid")
       ELSE /\ Idle # {}
            /\ pc' = [pc EXCEPT ![FreeWorker] = "accept_write"]
            /\ loc' = [loc EXCEPT ![FreeWorker] =
                   [user |-> u,
                    target |-> connection_requests[rid].requester_user_id,
                    rid |-> rid]]
            /\ UNCHANGED last
    /\ UNCHANGED db

\* Lines 1911-1923: UPDATE the request, INSERT OR IGNORE both edges, commit.
AcceptWrite(w) ==
    /\ pc[w] = "accept_write"
    /\ connection_requests' = UpdateStatus(connection_requests, loc[w].rid, ACEITA)
    /\ known_contacts' = AcceptInsertKnown(known_contacts, loc[w].user, loc[w].target)
    /\ Finish(w, "accept", loc[w].user, loc[w].target, loc[w].rid, "accepted")
    /\ UNCHANGED <<users, seq_users, rest, seq_requests, chat>>

----------------------------------------------------------------------------
\* reject_connection_request(request_id), session user u: one UPDATE, commit;
\* cursor.rowcount decides the message.
Reject(u, rid) ==
    /\ IF RejectMatches(connection_requests, rid, u)
       THEN /\ connection_requests' = UpdateStatus(connection_requests, rid, RECUSADA)
            /\ Answer("reject", u, 0, rid, "rejected")
       ELSE /\ UNCHANGED connection_requests
            /\ Answer("reject", u, 0, rid, "invalid")
    /\ UNCHANGED <<users, seq_users, rest, known_contacts, seq_requests, chat>>

\* remove_connection(target_user_id), session user u: two DELETEs, commit.
Remove(u, t) ==
    /\ known_contacts' = RemoveKnown(known_contacts, u, t)
    /\ Answer("remove", u, t, 0, "removed")
    /\ UNCHANGED <<users, seq_users, rest, connection_requests, seq_requests, chat>>

----------------------------------------------------------------------------
Next ==
    \/ Register
    \/ \E t \in UserIds : DeleteAccount(t)
    \/ \E u \in SessionUsers, t \in UserIds : SendBegin(u, t)
    \/ \E w \in Workers : SendCheckKnown(w)
    \/ \E w \in Workers : SendCheckSame(w)
    \/ \E w \in Workers : SendCheckOpposite(w)
    \/ \E w \in Workers : SendAutoAccept(w)
    \/ \E w \in Workers : SendInsert(w)
    \/ \E u \in SessionUsers, rid \in RequestIds : AcceptBegin(u, rid)
    \/ \E w \in Workers : AcceptWrite(w)
    \/ \E u \in SessionUsers, rid \in RequestIds : Reject(u, rid)
    \/ \E u \in SessionUsers, t \in UserIds : Remove(u, t)

Spec == Init /\ [][Next]_vars

----------------------------------------------------------------------------
\* The chat: conversations, their members, messages and read cursors.

\* The users of the chat specifications: three registered users.
ChatUserIds == {1, 2, 3}
\* How many conversations rows are ever inserted (AUTOINCREMENT ids).
MaxConversations == 3
\* len(group_name) < 3
MinGroupNameLen == 3
\* len(participants) < 3
MinParticipants == 3

\* Values of the name form field.
NameInputs ==
    {<<"a", "b">>, <<" ", "a", "b", " ">>, <<"a", "b", "c">>,
     <<" ", "a", "b", "c", " ">>}
\* Values of the member_ids form field: lists of ids, repetitions and the
\* creator's own id allowed; 4 is the id of no user.
MemberIdLists ==
    {<<>>, <<2>>, <<2, 2>>, <<1, 2>>, <<1, 3>>, <<2, 3>>, <<3, 2>>, <<1, 4>>,
     <<2, 4>>, <<3, 4>>, <<4, 3>>, <<1, 2, 3>>, <<2, 3, 4>>}
\* The forms posted to /chat/groups: every name with the members 2 and 3,
\* and every member list with a name of three characters.
GroupForms ==
    {<<name, <<2, 3>>>> : name \in NameInputs}
        \cup {<<<<"a", "b", "c">>, member_ids>> : member_ids \in MemberIdLists}

\* str.strip(): without the leading and the trailing blanks.
RECURSIVE lstrip(_)
lstrip(str) ==
    IF str # <<>> /\ Head(str) = " " THEN lstrip(Tail(str)) ELSE str
RECURSIVE rstrip(_)
rstrip(str) ==
    IF str # <<>> /\ str[Len(str)] = " "
    THEN rstrip(SubSeq(str, 1, Len(str) - 1))
    ELSE str
\* create_group_chat taking the name as typed.
strip_Nothing(str) == str
strip(str) == rstrip(lstrip(str))

\* The name of a direct conversation: NULL, no character.
NULL == <<>>

\* first_id, second_id = sorted([user_a_id, user_b_id])
first_id(user_a_id, user_b_id) ==
    IF user_a_id <= user_b_id THEN user_a_id ELSE user_b_id
second_id(user_a_id, user_b_id) ==
    IF user_a_id <= user_b_id THEN user_b_id ELSE user_a_id

\* The lookup of get_or_create_dm matching only what user_a_id created.
DmIds_OwnOnly(cv, cm, user_a_id, user_b_id) ==
    {c \in DOMAIN cv : /\ cv[c].type = "dm"
                       /\ cv[c].created_by_user_id = user_a_id
                       /\ <<c, first_id(user_a_id, user_b_id)>> \in cm
                       /\ <<c, second_id(user_a_id, user_b_id)>> \in cm}

\* SELECT c.id FROM conversations c JOIN conversation_members cm1 ... JOIN
\*   conversation_members cm2 ... WHERE c.type = 'dm'
DmIds(cv, cm, user_a_id, user_b_id) ==
    {c \in DOMAIN cv : /\ cv[c].type = "dm"
                       /\ <<c, first_id(user_a_id, user_b_id)>> \in cm
                       /\ <<c, second_id(user_a_id, user_b_id)>> \in cm}

\* cursor.fetchone() on that SELECT: the id of the first row, 0 for None.
FetchDm(cv, cm, user_a_id, user_b_id) ==
    IF DmIds(cv, cm, user_a_id, user_b_id) = {} THEN 0
    ELSE CHOOSE c \in DmIds(cv, cm, user_a_id, user_b_id) :
             \A d \in DmIds(cv, cm, user_a_id, user_b_id) : c <= d

\* INSERT INTO conversations (type, name, created_by_user_id, criado_em)
InsertConversation(cv, id, type, name, user_id) ==
    [c \in DOMAIN cv \cup {id} |->
        IF c = id
        THEN [type |-> type, name |-> name, created_by_user_id |-> user_id]
        ELSE cv[c]]

\* The two INSERT INTO conversation_members of get_or_create_dm.
InsertDmMembers(cm, id, user_a_id, user_b_id) ==
    cm \cup {<<id, first_id(user_a_id, user_b_id)>>,
             <<id, second_id(user_a_id, user_b_id)>>}

\* get_or_create_dm on one connection with nothing committed in between: the
\* id it returns and the tables it leaves.
get_or_create_dm(cv, cm, seq, user_a_id, user_b_id) ==
    IF FetchDm(cv, cm, user_a_id, user_b_id) # 0
    THEN [id |-> FetchDm(cv, cm, user_a_id, user_b_id),
          conversations |-> cv, conversation_members |-> cm, seq |-> seq]
    ELSE [id |-> seq + 1,
          conversations |->
              InsertConversation(cv, seq + 1, "dm", NULL, user_a_id),
          conversation_members |->
              InsertDmMembers(cm, seq + 1, user_a_id, user_b_id),
          seq |-> seq + 1]

\* unique_members = sorted({int(m) for m in member_ids if int(m) != user_id})
unique_members(member_ids, user_id) ==
    {member_ids[i] : i \in DOMAIN member_ids} \ {user_id}

\* The loop over unique_members in ascending order: the first member that
\* has no users row or is no known contact decides the answer.
GroupMemberError(us, kc, user_id, members) ==
    LET bad == {m \in members : m \notin us \/ ~can_users_chat(kc, user_id, m)}
        m0 == CHOOSE m \in bad : \A n \in bad : m <= n
    IN  IF bad = {} THEN "none"
        ELSE IF m0 \notin us THEN "unknown_member"
        ELSE "not_connected"

\* The answer of create_group_chat before it writes; "none" when it goes on.
GroupError(us, kc, user_id, name, member_ids) ==
    IF Len(strip(name)) < MinGroupNameLen THEN "name_too_short"
    ELSE IF 1 + Cardinality(unique_members(member_ids, user_id)) < MinParticipants
    THEN "insufficient_members"
    ELSE GroupMemberError(us, kc, user_id, unique_members(member_ids, user_id))

\* The answer of a refused create_group_chat, with the form it was given.
GroupOutcome(u, name, member_ids, r) ==
    [op |-> "group", user |-> u, target |-> 0, rid |-> 0, result |-> r,
     name |-> name, member_ids |-> member_ids]

\* Three approved users; user 1 sent requests to users 2 and 3 and both
\* accepted; the conversations cv with the members cm, no message yet.
ChatInit(cv, cm) ==
    /\ users = ChatUserIds
    /\ seq_users = 3
    /\ known_contacts = {<<1, 2>>, <<2, 1>>, <<1, 3>>, <<3, 1>>}
    /\ connection_requests =
           <<[requester_user_id |-> 1, receiver_user_id |-> 2, status |-> ACEITA],
             [requester_user_id |-> 1, receiver_user_id |-> 3, status |-> ACEITA]>>
    /\ seq_requests = 2
    /\ conversations = cv
    /\ seq_conversations = Len(cv)
    /\ conversation_members = cm
    /\ messages = <<>>
    /\ seq_messages = 0
    /\ conversation_reads = <<>>
    /\ role = <<ADMIN, MEMBRO, MEMBRO>>
    /\ approved = <<1, 1, 1>>
    /\ NoContent
    /\ pc = [w \in Workers |-> "idle"]
    /\ loc = [w \in Workers |-> NoLoc]
    /\ last = Outcome("none", 0, 0, 0, "none")

\* create_or_open_dm(target_user_id), session user u: the self check, SELECT
\* users, can_users_chat and the lookup of get_or_create_dm.
DmBegin(u, t) ==
    /\ IF t = u
       THEN Answer("dm", u, t, 0, "self_target")
       ELSE IF t \notin users
       THEN Answer("dm", u, t, 0, "not_found")
       ELSE IF ~can_users_chat(known_contacts, u, t)
       THEN Answer("dm", u, t, 0, "not_connected")
       ELSE IF FetchDm(conversations, conversation_members, u, t) # 0
       THEN Answer("dm", u, t,
                   FetchDm(conversations, conversation_members, u, t), "opened")
       ELSE /\ Idle # {}
            /\ pc' = [pc EXCEPT ![FreeWorker] = "dm_write"]
            /\ loc' = [loc EXCEPT ![FreeWorker] =
                          [user |-> u, target |-> t, rid |-> 0]]
            /\ UNCHANGED last
    /\ UNCHANGED db

\* get_or_create_dm after its lookup found nothing: the three INSERTs, then
\* commit in create_or_open_dm.
DmWrite(w) ==
    /\ pc[w] = "dm_write"
    /\ seq_conversations < MaxConversations
    /\ seq_conversations' = seq_conversations + 1
    /\ conversations' =
           InsertConversation(conversations, seq_conversations + 1, "dm", NULL,
                              loc[w].user)
    /\ conversation_members' =
           InsertDmMembers(conversation_members, seq_conversations + 1,
                           loc[w].user, loc[w].target)
    /\ Finish(w, "dm", loc[w].user, loc[w].target, seq_conversations + 1, "created")
    /\ UNCHANGED <<users, seq_users, rest, known_contacts, connection_requests,
                   seq_requests, messages, seq_messages, conversation_reads>>

\* create_group_chat(name, member_ids), session user u: the checks of the
\* name, of the number of participants and of every member.
GroupBegin(u, name, member_ids) ==
    /\ IF GroupError(users, known_contacts, u, name, member_ids) # "none"
       THEN /\ last' = GroupOutcome(u, name, member_ids,
                            GroupError(users, known_contacts, u, name, member_ids))
            /\ UNCHANGED <<pc, loc>>
       ELSE /\ Idle # {}
            /\ pc' = [pc EXCEPT ![FreeWorker] = "group_write"]
            /\ loc' = [loc EXCEPT ![FreeWorker] =
                          [user |-> u, target |-> 0, rid |-> 0,
                           name |-> strip(name),
                           members |-> unique_members(member_ids, u)]]
            /\ UNCHANGED last
    /\ UNCHANGED db

\* create_group_chat: INSERT the conversation and one conversation_members
\* row for each participant, commit.
GroupWrite(w) ==
    /\ pc[w] = "group_write"
    /\ seq_conversations < MaxConversations
    /\ seq_conversations' = seq_conversations + 1
    /\ conversations' =
           InsertConversation(conversations, seq_conversations + 1, "group",
                              loc[w].name, loc[w].user)
    /\ conversation_members' =
           conversation_members \cup
               {<<seq_conversations + 1, p>> : p \in {loc[w].user} \cup loc[w].members}
    /\ Finish(w, "group", loc[w].user, 0, seq_conversations + 1, "created")
    /\ UNCHANGED <<users, seq_users, rest, known_contacts, connection_requests,
                   seq_requests, messages, seq_messages, conversation_reads>>

\* The group "abc" user 1 created with users 2 and 3.
GroupOfThree ==
    <<[type |-> "group", name |-> <<"a", "b", "c">>, created_by_user_id |-> 1]>>

\* Direct conversations: the group of the three users exists, the users
\* open direct conversations and role, approved are deleted.
DmInit == ChatInit(GroupOfThree, {<<1, 1>>, <<1, 2>>, <<1, 3>>})

DmNext ==
    \/ \E u \in SessionUsers, t \in ChatUserIds : DmBegin(u, t)
    \/ \E w \in Workers : DmWrite(w)
    \/ \E t \in ChatUserIds : DeleteAccount(t)

DmSpec == DmInit /\ [][DmNext]_vars

\* Groups: no conversation yet, the users create groups and role, approved are
\* deleted.
GroupInit == ChatInit(<<>>, {})

GroupNext ==
    \/ \E u \in SessionUsers, form \in GroupForms :
           GroupBegin(u, form[1], form[2])
    \/ \E w \in Workers : GroupWrite(w)
    \/ \E t \in ChatUserIds : DeleteAccount(t)

GroupSpec == GroupInit /\ [][GroupNext]_vars

\* Direct and group conversations together: no conversation yet, the users
\* open direct conversations and post the form of the group "abc" with the
\* members 2 and 3, and role, approved are deleted.
ConvInit == ChatInit(<<>>, {})
\* The ids the conversations table hands out here.
ConvIds == {1, 2}

ConvNext ==
    \/ \E u \in SessionUsers, t \in ChatUserIds : DmBegin(u, t)
    \/ \E w \in Workers : seq_conversations + 1 \in ConvIds /\ DmWrite(w)
    \/ \E u \in SessionUsers : GroupBegin(u, <<"a", "b", "c">>, <<2, 3>>)
    \/ \E w \in Workers : seq_conversations + 1 \in ConvIds /\ GroupWrite(w)
    \/ \E t \in ChatUserIds : DeleteAccount(t)

ConvSpec == ConvInit /\ [][ConvNext]_vars

----------------------------------------------------------------------------
\* Messages and read cursors.

\* How many messages rows are ever inserted (AUTOINCREMENT ids).
MaxMessages == 2
\* Values of the conversation_id path parameter: the conversation of the
\* initial state, which exists until its last member is deleted.
ConversationInputs == {1}
\* Values of the conteudo form field.
TextInputs == {<<>>, <<" ">>, <<" ", "o", "i", " ">>}
\* The file form field: none sent, one whose name is blank, one over
\* MAX_UPLOAD_BYTES, one that is stored.
FileInputs == {"none", "blank", "big", "ok"}
\* The forms posted to /chat/{conversation_id}/messages.
PostForms ==
    {<<conteudo, "none">> : conteudo \in TextInputs}
        \cup {<<<<>>, file>> : file \in FileInputs}

\* get_conversation_if_member without the JOIN on conversation_members.
get_conversation_if_member_NoJoin(cv, cm, conversation_id, user_id) ==
    conversation_id \in DOMAIN cv

\* get_conversation_if_member(...) is not None
get_conversation_if_member(cv, cm, conversation_id, user_id) ==
    /\ conversation_id \in DOMAIN cv
    /\ <<conversation_id, user_id>> \in cm

\* save_chat_file: the file_url it returns (NULL for none) and whether it
\* reports an error.
save_chat_file(file) ==
    IF file = "ok" THEN [file_url |-> <<"f">>, file_error |-> FALSE]
    ELSE IF file = "none" THEN [file_url |-> NULL, file_error |-> FALSE]
    ELSE [file_url |-> NULL, file_error |-> TRUE]

\* The answer of send_chat_message before it writes; "none" when it goes on.
PostError(cv, cm, conversation_id, user_id, conteudo, file) ==
    IF ~get_conversation_if_member(cv, cm, conversation_id, user_id)
    THEN "not_a_member"
    ELSE IF file # "none" /\ save_chat_file(file).file_error THEN "file_error"
    ELSE IF strip(conteudo) = <<>> /\ save_chat_file(file).file_url = NULL
    THEN "empty_message"
    ELSE "none"

\* INSERT INTO messages (conversation_id, sender_user_id, conteudo, file_url,
\*   file_name, criado_em): conteudo is texto or None.
InsertMessage(ms, id, conversation_id, user_id, texto, file_url) ==
    [m \in DOMAIN ms \cup {id} |->
        IF m = id
        THEN [conversation_id |-> conversation_id, sender_user_id |-> user_id,
              conteudo |-> texto, file_url |-> file_url]
        ELSE ms[m]]

\* chat_page: SELECT m.id ... FROM messages m INNER JOIN users u ON u.id =
\*   m.sender_user_id WHERE m.conversation_id = ? ORDER BY m.id ASC
conversation_messages(ms, us, conversation_id) ==
    {m \in DOMAIN ms : /\ ms[m].conversation_id = conversation_id
                       /\ ms[m].sender_user_id \in us}

\* conversation_messages[-1]["id"] if conversation_messages else 0
last_message_id(ms, us, conversation_id) ==
    IF conversation_messages(ms, us, conversation_id) = {} THEN 0
    ELSE CHOOSE m \in conversation_messages(ms, us, conversation_id) :
             \A n \in conversation_messages(ms, us, conversation_id) : n <= m

\* INSERT INTO conversation_reads ... ON CONFLICT(conversation_id, user_id)
\*   DO UPDATE SET last_read_message_id = excluded.last_read_message_id
UpsertRead(rd, conversation_id, user_id, id) ==
    [k \in DOMAIN rd \cup {<<conversation_id, user_id>>} |->
        IF k = <<conversation_id, user_id>> THEN id ELSE rd[k]]

\* COALESCE((SELECT cr.last_read_message_id FROM conversation_reads cr WHERE
\*   cr.conversation_id = c.id AND cr.user_id = ?), 0)
read_cursor(rd, conversation_id, user_id) ==
    IF <<conversation_id, user_id>> \in DOMAIN rd
    THEN rd[<<conversation_id, user_id>>]
    ELSE 0

\* get_user_conversations: SELECT COUNT(*) FROM messages mu WHERE
\*   mu.conversation_id = c.id AND mu.sender_user_id != ? AND mu.id > COALESCE(...)
unread_count(ms, rd, conversation_id, user_id) ==
    Cardinality({m \in DOMAIN ms :
                    /\ ms[m].conversation_id = conversation_id
                    /\ ms[m].sender_user_id # user_id
                    /\ m > read_cursor(rd, conversation_id, user_id)})

\* get_user_conversations: FROM conversations c INNER JOIN
\*   conversation_members cm ON cm.conversation_id = c.id WHERE cm.user_id = ?
get_user_conversations(cv, cm, user_id) ==
    {c \in DOMAIN cv : <<c, user_id>> \in cm}

\* conversations[0]["id"] if conversations, else None (0): the rows are
\* ordered by the time of the last message, or of the creation, descending;
\* the latest conversation stands for it here.
first_conversation(cv, cm, user_id) ==
    IF get_user_conversations(cv, cm, user_id) = {} THEN 0
    ELSE CHOOSE c \in get_user_conversations(cv, cm, user_id) :
             \A d \in get_user_conversations(cv, cm, user_id) : d <= c

\* The answer of a refused send_chat_message, with the form it was given.
PostOutcome(u, conversation_id, conteudo, file, r) ==
    [op |-> "post", user |-> u, target |-> conversation_id, rid |-> 0,
     result |-> r, conteudo |-> conteudo, file |-> file]

\* send_chat_message(conversation_id, conteudo, file), session user u:
\* get_conversation_if_member, save_chat_file and the check for an empty
\* message.
PostBegin(u, conversation_id, conteudo, file) ==
    /\ IF PostError(conversations, conversation_members, conversation_id, u,
                    conteudo, file) # "none"
       THEN /\ last' = PostOutcome(u, conversation_id, conteudo, file,
                           PostError(conversations, conversation_members,
                                     conversation_id, u, conteudo, file))
            /\ UNCHANGED <<pc, loc>>
       ELSE /\ Idle # {}
            /\ pc' = [pc EXCEPT ![FreeWorker] = "post_write"]
            /\ loc' = [loc EXCEPT ![FreeWorker] =
                          [user |-> u, target |-> conversation_id, rid |-> 0,
                           texto |-> strip(conteudo),
                           file_url |-> save_chat_file(file).file_url]]
            /\ UNCHANGED last
    /\ UNCHANGED db

\* send_chat_message: INSERT INTO messages, commit.
PostWrite(w) ==
    /\ pc[w] = "post_write"
    /\ seq_messages < MaxMessages
    /\ seq_messages' = seq_messages + 1
    /\ messages' = InsertMessage(messages, seq_messages + 1, loc[w].target,
                                 loc[w].user, loc[w].texto, loc[w].file_url)
    /\ Finish(w, "post", loc[w].user, loc[w].target, seq_messages + 1, "posted")
    /\ UNCHANGED <<users, seq_users, rest, known_contacts, connection_requests,
                   seq_requests, conversations, seq_conversations,
                   conversation_members, conversation_reads>>

\* chat_page(conversation_id), session user u, conversation_id 0 for None:
\* get_user_conversations, get_conversation_if_member and the SELECT of the
\* messages of the selected conversation.  seen is how many messages rows
\* had been inserted when the messages were read.
OpenBegin(u, conversation_id) ==
    /\ LET selected_id ==
               IF conversation_id = 0
               THEN first_conversation(conversations, conversation_members, u)
               ELSE conversation_id
       IN  IF selected_id = 0
           THEN Answer("open", u, 0, 0, "no_conversation")
           ELSE IF ~get_conversation_if_member(conversations, conversation_members,
                                               selected_id, u)
           THEN Answer("open", u, selected_id, 0, "not_found")
           ELSE /\ Idle # {}
                /\ pc' = [pc EXCEPT ![FreeWorker] = "open_write"]
                /\ loc' = [loc EXCEPT ![FreeWorker] =
                              [user |-> u, target |-> selected_id,
                               rid |-> last_message_id(messages, users, selected_id),
                               seen |-> seq_messages]]
                /\ UNCHANGED last
    /\ UNCHANGED db

\* chat_page: the upsert of the read cursor, commit.
OpenWrite(w) ==
    /\ pc[w] = "open_write"
    /\ conversation_reads' =
           UpsertRead(conversation_reads, loc[w].target, loc[w].user, loc[w].rid)
    /\ Finish(w, "open", loc[w].user, loc[w].target, loc[w].rid, "opened")
    /\ UNCHANGED <<users, seq_users, rest, known_contacts, connection_requests,
                   seq_requests, conversations, seq_conversations,
                   conversation_members, messages, seq_messages>>

\* The direct conversation user 1 opened with user 2.
DmOfOneAndTwo ==
    <<[type |-> "dm", name |-> NULL, created_by_user_id |-> 1]>>

\* Posting: the direct conversation of users 1 and 2 exists (user 3 is no
\* member), the users post every form and role, approved are deleted.
PostInit == ChatInit(DmOfOneAndTwo, {<<1, 1>>, <<1, 2>>})

PostNext ==
    \/ \E u \in SessionUsers, c \in ConversationInputs, form \in PostForms :
           PostBegin(u, c, form[1], form[2])
    \/ \E w \in Workers : PostWrite(w)
    \/ \E t \in ChatUserIds : DeleteAccount(t)

PostSpec == PostInit /\ [][PostNext]_vars

\* Reading: the same conversation, the users post text messages and open
\* the chat page and role, approved are deleted.
ReadInit == ChatInit(DmOfOneAndTwo, {<<1, 1>>, <<1, 2>>})

ReadNext ==
    \/ \E u \in SessionUsers, c \in ConversationInputs :
           PostBegin(u, c, <<"o", "i">>, "none")
    \/ \E w \in Workers : PostWrite(w)
    \/ \E u \in SessionUsers, c \in {0} \cup ConversationInputs : OpenBegin(u, c)
    \/ \E w \in Workers : OpenWrite(w)
    \/ \E t \in ChatUserIds : DeleteAccount(t)

ReadSpec == ReadInit /\ [][ReadNext]_vars

\* Contacts and chat together: users 1 and 2 have their direct conversation;
\* the users remove connections, open direct conversations and post text
\* messages.
UnlinkInit == ChatInit(DmOfOneAndTwo, {<<1, 1>>, <<1, 2>>})

UnlinkNext ==
    \/ \E u \in SessionUsers, t \in ChatUserIds : Remove(u, t)
    \/ \E u \in SessionUsers, t \in ChatUserIds : DmBegin(u, t)
    \/ \E w \in Workers : DmWrite(w)
    \/ \E u \in SessionUsers, c \in ConversationInputs :
           PostBegin(u, c, <<"o", "i">>, "none")
    \/ \E w \in Workers : PostWrite(w)

UnlinkSpec == UnlinkInit /\ [][UnlinkNext]_vars

----------------------------------------------------------------------------
\* The feed and its moderation: create_post, create_comment, toggle_like,
\* report_post, report_comment, delete_post, resolve_report and
\* remove_report_target.

\* The ids the posts and comments tables hand out, which are also the ids a
\* post_id or comment_id path parameter carries: no handler that takes one
\* looks the row up before it inserts.
PostIds == {1}
CommentIds == {1}
\* The users who act on the feed: the leader and the member.  The member
\* writes the posts, the leader files the reports, and the account of the
\* member is the one deleted.
Writers == {2, 3}
Authors == {3}
Reporters == {2}
\* The ids of the reports rows that are inserted (AUTOINCREMENT).
ReportIds == {1, 2}

\* is_moderator with any user that has a row.
is_moderator_AnyRole(rl, u) == u \in DOMAIN rl
\* is_moderator(user_row), user_row from SELECT role FROM users WHERE id = u
is_moderator(rl, u) == u \in DOMAIN rl /\ rl[u] \in {LIDER, ADMIN}
\* is_admin(user_row)
is_admin(rl, u) == u \in DOMAIN rl /\ rl[u] = ADMIN

\* INSERT INTO posts (user_id, conteudo, criado_em)
InsertPost(ps, id, user_id) ==
    [i \in DOMAIN ps \cup {id} |-> IF i = id THEN [user_id |-> user_id] ELSE ps[i]]
\* INSERT INTO comments (post_id, user_id, conteudo, criado_em)
InsertComment(cs, id, post_id, user_id) ==
    [i \in DOMAIN cs \cup {id} |->
        IF i = id THEN [post_id |-> post_id, user_id |-> user_id] ELSE cs[i]]
\* INSERT INTO reports (reporter_user_id, target_type, target_id, motivo,
\*   criado_em): status takes its default 'aberto'.
InsertReport(rp, id, user_id, type, target_id) ==
    [i \in DOMAIN rp \cup {id} |->
        IF i = id
        THEN [reporter_user_id |-> user_id, target_type |-> type,
              target_id |-> target_id, status |-> ABERTO]
        ELSE rp[i]]
\* UPDATE reports SET status = 'resolvido' WHERE id = report_id
ResolveStatus(rp, report_id) ==
    [i \in DOMAIN rp |->
        IF i = report_id THEN [rp[i] EXCEPT !.status = RESOLVIDO] ELSE rp[i]]

\* can_delete of delete_post.
can_delete(ps, rl, post_id, user_id) ==
    /\ post_id \in DOMAIN ps
    /\ \/ ps[post_id].user_id = user_id
       \/ is_moderator(rl, user_id)

\* Three approved users: the admin, a leader the admin has appointed, and a
\* member.
ContentInit ==
    /\ users = {1, 2, 3}
    /\ seq_users = 3
    /\ role = <<ADMIN, LIDER, MEMBRO>>
    /\ approved = <<1, 1, 1>>
    /\ known_contacts = {}
    /\ connection_requests = <<>>
    /\ seq_requests = 0
    /\ conversations = <<>>
    /\ seq_conversations = 0
    /\ conversation_members = {}
    /\ messages = <<>>
    /\ seq_messages = 0
    /\ conversation_reads = <<>>
    /\ NoContent
    /\ pc = [w \in Workers |-> "idle"]
    /\ loc = [w \in Workers |-> NoLoc]
    /\ last = Outcome("none", 0, 0, 0, "none")

\* create_post, session user u, a text that is not blank.
CreatePost(u) ==
    /\ seq_posts + 1 \in PostIds
    /\ seq_posts' = seq_posts + 1
    /\ posts' = InsertPost(posts, seq_posts + 1, u)
    /\ Answer("post", u, seq_posts + 1, 0, "ok")
    /\ UNCHANGED <<comments, seq_comments, post_likes, reports, seq_reports,
                   users, seq_users,
                   known_contacts, connection_requests, seq_requests, chat,
                   role, approved, backups, clock>>

\* create_comment(post_id), session user u, a text that is not blank.
CreateComment(u, post_id) ==
    /\ seq_comments + 1 \in CommentIds
    /\ seq_comments' = seq_comments + 1
    /\ comments' = InsertComment(comments, seq_comments + 1, post_id, u)
    /\ Answer("comment", u, post_id, 0, "ok")
    /\ UNCHANGED <<posts, seq_posts, post_likes, reports, seq_reports,
                   users, seq_users,
                   known_contacts, connection_requests, seq_requests, chat,
                   role, approved, backups, clock>>

\* toggle_like(post_id), session user u, with no other commit between its
\* SELECT and its DELETE or INSERT.
ToggleLike(u, post_id) ==
    /\ post_likes' = IF <<post_id, u>> \in post_likes
                     THEN post_likes \ {<<post_id, u>>}
                     ELSE post_likes \cup {<<post_id, u>>}
    /\ Answer("like", u, post_id, 0, "ok")
    /\ UNCHANGED <<posts, seq_posts, comments, seq_comments, reports,
                   seq_reports, users, seq_users,
                   known_contacts, connection_requests, seq_requests, chat,
                   role, approved, backups, clock>>

\* report_post(post_id) and report_comment(comment_id), session user u, a
\* motivo that is not blank.
Report(u, type, target_id) ==
    /\ seq_reports + 1 \in ReportIds
    /\ seq_reports' = seq_reports + 1
    /\ reports' = InsertReport(reports, seq_reports + 1, u, type, target_id)
    /\ Answer("report", u, target_id, seq_reports + 1, type)
    /\ UNCHANGED <<posts, seq_posts, comments, seq_comments, post_likes,
                   users, seq_users,
                   known_contacts, connection_requests, seq_requests, chat,
                   role, approved, backups, clock>>

\* The moderation handlers are taken one at a time; the other handlers of
\* the feed commit between the SELECTs and the commit of the one in flight.

\* delete_post(post_id), session user u: SELECT role, SELECT the post,
\* can_delete.
DeletePostBegin(u, post_id) ==
    /\ IF ~can_delete(posts, role, post_id, u)
       THEN Answer("delete_post", u, post_id, 0, "ignored")
       ELSE /\ Idle = Workers
            /\ pc' = [pc EXCEPT ![FreeWorker] = "delete_post"]
            /\ loc' = [loc EXCEPT ![FreeWorker] =
                           [user |-> u, target |-> post_id, rid |-> 0]]
            /\ UNCHANGED last
    /\ UNCHANGED db

\* Lines 1322-1326: the four DELETEs and commit.
DeletePostWrite(w) ==
    /\ pc[w] = "delete_post"
    /\ comments' = DeletePostComments(comments, {loc[w].target})
    /\ post_likes' = DeletePostLikes(post_likes, {loc[w].target})
    /\ reports' = DeleteTargetReports(reports, "post", {loc[w].target})
    /\ posts' = DeleteRows(posts, {loc[w].target})
    /\ Finish(w, "delete_post", loc[w].user, loc[w].target, 0, "removed")
    /\ UNCHANGED <<seq_posts, seq_comments, seq_reports, users, seq_users,
                   known_contacts, connection_requests, seq_requests, chat,
                   role, approved, backups, clock>>

\* resolve_report(report_id), session user u: SELECT role, is_moderator.
ResolveBegin(u, report_id) ==
    /\ IF ~is_moderator(role, u)
       THEN Answer("resolve", u, 0, report_id, "forbidden")
       ELSE /\ Idle = Workers
            /\ pc' = [pc EXCEPT ![FreeWorker] = "resolve"]
            /\ loc' = [loc EXCEPT ![FreeWorker] =
                           [user |-> u, target |-> 0, rid |-> report_id]]
            /\ UNCHANGED last
    /\ UNCHANGED db

\* Lines 1616-1617: the UPDATE and commit.
ResolveWrite(w) ==
    /\ pc[w] = "resolve"
    /\ reports' = ResolveStatus(reports, loc[w].rid)
    /\ Finish(w, "resolve", loc[w].user, 0, loc[w].rid, "resolved")
    /\ UNCHANGED <<posts, seq_posts, comments, seq_comments, post_likes,
                   seq_reports, users, seq_users,
                   known_contacts, connection_requests, seq_requests, chat,
                   role, approved, backups, clock>>

\* remove_report_target(report_id), session user u: SELECT role,
\* is_moderator, SELECT target_type, target_id of the report.
RemoveTargetBegin(u, report_id) ==
    /\ IF ~is_moderator(role, u)
       THEN Answer("remove_target", u, 0, report_id, "forbidden")
       ELSE IF report_id \notin DOMAIN reports
       THEN Answer("remove_target", u, 0, report_id, "not_found")
       ELSE /\ Idle = Workers
            /\ pc' = [pc EXCEPT ![FreeWorker] = "remove_target"]
            /\ loc' = [loc EXCEPT ![FreeWorker] =
                           [user |-> u, target |-> reports[report_id].target_id,
                            rid |-> report_id,
                            type |-> reports[report_id].target_type]]
            /\ UNCHANGED last
    /\ UNCHANGED db

\* Lines 1643-1652: the DELETEs of the target.
RemoveTargetComments(cs, type, target_id) ==
    IF type = "post" THEN DeletePostComments(cs, {target_id})
    ELSE DeleteRows(cs, {target_id})
RemoveTargetLikes(lk, type, target_id) ==
    IF type = "post" THEN DeletePostLikes(lk, {target_id}) ELSE lk
RemoveTargetPosts(ps, type, target_id) ==
    IF type = "post" THEN DeleteRows(ps, {target_id}) ELSE ps
\* Lines 1643-1656: the DELETEs, the UPDATE of the report and commit.
RemoveTargetWrite(w) ==
    /\ pc[w] = "remove_target"
    /\ comments' = RemoveTargetComments(comments, loc[w].type, loc[w].target)
    /\ post_likes' = RemoveTargetLikes(post_likes, loc[w].type, loc[w].target)
    /\ reports' =
           ResolveStatus(DeleteTargetReports(reports, loc[w].type,
                                             {loc[w].target}),
                         loc[w].rid)
    /\ posts' = RemoveTargetPosts(posts, loc[w].type, loc[w].target)
    /\ Finish(w, "remove_target", loc[w].user, loc[w].target, loc[w].rid,
              loc[w].type)
    /\ UNCHANGED <<seq_posts, seq_comments, seq_reports, users, seq_users,
                   known_contacts, connection_requests, seq_requests, chat,
                   role, approved, backups, clock>>

ContentNext ==
    \/ \E u \in Authors : CreatePost(u)
    \/ \E u \in Writers, p \in PostIds : CreateComment(u, p)
    \/ \E u \in Writers, p \in PostIds : ToggleLike(u, p)
    \/ \E u \in Reporters, p \in PostIds : Report(u, "post", p)
    \/ \E u \in Reporters, c \in CommentIds : Report(u, "comment", c)
    \/ \E u \in Writers, p \in PostIds : DeletePostBegin(u, p)
    \/ \E w \in Workers : DeletePostWrite(w)
    \/ \E u \in Writers, r \in ReportIds : ResolveBegin(u, r)
    \/ \E w \in Workers : ResolveWrite(w)
    \/ \E u \in Writers, r \in ReportIds : RemoveTargetBegin(u, r)
    \/ \E w \in Workers : RemoveTargetWrite(w)
    \/ \E t \in Authors : DeleteAccount(t)

ContentSpec == ContentInit /\ [][ContentNext]_vars

----------------------------------------------------------------------------
\* Accounts: register, update_user_role, approve_user_registration,
\* reject_user_registration and delete_profile.

\* The ids the users table hands out here.
AccountIds == {1, 2}
\* Values of the new_role form field; "dono" is none of the three roles.
RoleInputs == {MEMBRO, LIDER, ADMIN, "dono"}
\* Values of the replacement_admin_id form field, 0 for a blank field.
ReplacementInputs == {0} \cup AccountIds

\* login refuses a user whose row has approved = 0, so the session user of
\* a handler below, if the row is there, is approved (u \in users =>
\* approved[u] = 1); the cookie outlives the row.

\* UPDATE users SET <column> = value WHERE id = t
UpdateUser(col, t, value) ==
    [i \in DOMAIN col |-> IF i = t THEN value ELSE col[i]]

\* register, lines 773-775: SELECT COUNT(*) FROM users.  Every form carries
\* an e-mail of its own.
RegisterBegin ==
    /\ seq_users + 1 \in AccountIds
    /\ Idle # {}
    /\ pc' = [pc EXCEPT ![FreeWorker] = "register"]
    /\ loc' = [loc EXCEPT ![FreeWorker] =
                   [user |-> 0, target |-> 0, rid |-> 0,
                    total_users |-> Cardinality(users)]]
    /\ UNCHANGED <<db, last>>

\* Lines 776-804: default_role and approved from the count read, INSERT INTO
\* users, commit.
RegisterWrite(w) ==
    /\ pc[w] = "register"
    /\ seq_users + 1 \in AccountIds
    /\ seq_users' = seq_users + 1
    /\ users' = users \cup {seq_users + 1}
    /\ role' = InsertUser(role, seq_users + 1, default_role(loc[w].total_users))
    /\ approved' = InsertUser(approved, seq_users + 1,
                              default_approved(loc[w].total_users))
    /\ Finish(w, "register", seq_users + 1, 0, 0,
              default_role(loc[w].total_users))
    /\ UNCHANGED <<known_contacts, connection_requests, seq_requests, chat,
                   content, backups, clock>>

\* update_user_role(target_user_id, new_role), session user u: the check of
\* new_role, SELECT role, is_admin, the self check.
UpdateRoleBegin(u, t, new_role) ==
    /\ (u \in users => approved[u] = 1)
    /\ IF new_role \notin {MEMBRO, LIDER, ADMIN}
       THEN Answer("role", u, t, 0, "invalid_role")
       ELSE IF ~is_admin(role, u)
       THEN Answer("role", u, t, 0, "forbidden")
       ELSE IF t = u /\ new_role # ADMIN
       THEN Answer("role", u, t, 0, "own_role")
       ELSE /\ Idle # {}
            /\ pc' = [pc EXCEPT ![FreeWorker] = "role"]
            /\ loc' = [loc EXCEPT ![FreeWorker] =
                           [user |-> u, target |-> t, rid |-> 0,
                            new_role |-> new_role]]
            /\ UNCHANGED last
    /\ UNCHANGED db

\* Lines 1684-1685: UPDATE users SET role, commit.
UpdateRoleWrite(w) ==
    /\ pc[w] = "role"
    /\ role' = UpdateUser(role, loc[w].target, loc[w].new_role)
    /\ Finish(w, "role", loc[w].user, loc[w].target, 0, loc[w].new_role)
    /\ UNCHANGED <<users, seq_users, approved, known_contacts,
                   connection_requests, seq_requests, chat, content, backups, clock>>

\* approve_user_registration(target_user_id), session user u: SELECT role,
\* is_admin.
ApproveBegin(u, t) ==
    /\ (u \in users => approved[u] = 1)
    /\ IF ~is_admin(role, u)
       THEN Answer("approve", u, t, 0, "forbidden")
       ELSE /\ Idle # {}
            /\ pc' = [pc EXCEPT ![FreeWorker] = "approve"]
            /\ loc' = [loc EXCEPT ![FreeWorker] =
                           [user |-> u, target |-> t, rid |-> 0]]
            /\ UNCHANGED last
    /\ UNCHANGED db

\* Lines 1704-1705: UPDATE users SET approved = 1, commit.
ApproveWrite(w) ==
    /\ pc[w] = "approve"
    /\ approved' = UpdateUser(approved, loc[w].target, 1)
    /\ Finish(w, "approve", loc[w].user, loc[w].target, 0, "approved")
    /\ UNCHANGED <<users, seq_users, role, known_contacts,
                   connection_requests, seq_requests, chat, content, backups, clock>>

\* reject_user_registration(target_user_id), session user u: SELECT role,
\* is_admin.
RejectUserBegin(u, t) ==
    /\ (u \in users => approved[u] = 1)
    /\ IF ~is_admin(role, u)
       THEN Answer("reject_user", u, t, 0, "forbidden")
       ELSE /\ Idle # {}
            /\ pc' = [pc EXCEPT ![FreeWorker] = "reject_user"]
            /\ loc' = [loc EXCEPT ![FreeWorker] =
                           [user |-> u, target |-> t, rid |-> 0]]
            /\ UNCHANGED last
    /\ UNCHANGED db

\* Lines 1725-1726: delete_user_account_data(target_user_id), commit.
RejectUserWrite(w) ==
    /\ pc[w] = "reject_user"
    /\ DeleteUserData(loc[w].target, role)
    /\ Finish(w, "reject_user", loc[w].user, loc[w].target, 0, "removed")

\* The checks of delete_profile on replacement_admin_id when the session
\* user is admin: isdigit and not the user itself, then SELECT id FROM users
\* WHERE id = ? AND approved = 1.
ReplacementError(us, ap, user_id, replacement_admin_id) ==
    IF replacement_admin_id = 0 \/ replacement_admin_id = user_id
    THEN "need_replacement"
    ELSE IF ~(replacement_admin_id \in us /\ ap[replacement_admin_id] = 1)
    THEN "invalid_replacement"
    ELSE "none"

\* delete_profile(replacement_admin_id, confirm_delete_text), session user u,
\* confirm telling whether the text is EXCLUIR: SELECT id, role, the check of
\* the text and, for an admin, the checks of the replacement.  new_admin is
\* 0 when the user is no admin.
DeleteProfileBegin(u, replacement_admin_id, confirm) ==
    /\ (u \in users => approved[u] = 1)
    /\ IF u \notin users
       THEN Answer("delete_profile", u, replacement_admin_id, 0, "no_user")
       ELSE IF ~confirm
       THEN Answer("delete_profile", u, replacement_admin_id, 0, "not_confirmed")
       ELSE IF /\ role[u] = ADMIN
               /\ ReplacementError(users, approved, u, replacement_admin_id) # "none"
       THEN Answer("delete_profile", u, replacement_admin_id, 0,
                   ReplacementError(users, approved, u, replacement_admin_id))
       ELSE /\ Idle # {}
            /\ pc' = [pc EXCEPT ![FreeWorker] = "delete_profile"]
            /\ loc' = [loc EXCEPT ![FreeWorker] =
                           [user |-> u, target |-> 0, rid |-> 0,
                            new_admin |-> IF role[u] = ADMIN
                                          THEN replacement_admin_id ELSE 0]]
            /\ UNCHANGED last
    /\ UNCHANGED db

\* Lines 1540-1543: UPDATE users SET role = 'admin' for the replacement of an
\* admin, delete_user_account_data(user_id), commit.
DeleteProfileWrite(w) ==
    /\ pc[w] = "delete_profile"
    /\ DeleteUserData(loc[w].user,
                      IF loc[w].new_admin = 0 THEN role
                      ELSE UpdateUser(role, loc[w].new_admin, ADMIN))
    /\ Finish(w, "delete_profile", loc[w].user, loc[w].new_admin, 0, "removed")

\* Accounts: an empty store, users register and act on their role, approved.
AdminNext ==
    \/ RegisterBegin
    \/ \E w \in Workers : RegisterWrite(w)
    \/ \E u \in SessionUsers, t \in AccountIds, new_role \in RoleInputs :
           UpdateRoleBegin(u, t, new_role)
    \/ \E w \in Workers : UpdateRoleWrite(w)
    \/ \E u \in SessionUsers, t \in AccountIds : ApproveBegin(u, t)
    \/ \E w \in Workers : ApproveWrite(w)
    \/ \E u \in SessionUsers, t \in AccountIds : RejectUserBegin(u, t)
    \/ \E w \in Workers : RejectUserWrite(w)
    \/ \E u \in SessionUsers, t \in ReplacementInputs, confirm \in BOOLEAN :
           DeleteProfileBegin(u, t, confirm)
    \/ \E w \in Workers : DeleteProfileWrite(w)

AdminSpec == Init /\ [][AdminNext]_vars

----------------------------------------------------------------------------
\* Backups: create_sqlite_backup and prune_old_backups of backup_sqlite.py,
\* called by create_backup_now and by main of the script.

\* The modification times of the backups that are written.
BackupTimes == {1, 2, 3, 4}
\* A prefix is the list of its words, which the file name joins with "_";
\* the file of a backup is named <prefix>_<timestamp>.db.
WebPrefix == <<"social", "igreja", "web">>
PrefixInputs == {WebPrefix, <<"social", "igreja", "web", "teste">>}
\* Values of BACKUP_KEEP and of --keep.
KeepInputs == {0, 1, 2}

\* glob.glob(pattern) of <prefix>_*.db: the files whose name starts with the
\* words of the prefix, each followed by "_".
glob(dir, prefix) ==
    {f \in dir : /\ Len(prefix) <= Len(f.prefix)
                 /\ SubSeq(f.prefix, 1, Len(prefix)) = prefix}
\* sorted(..., key=os.path.getmtime) without reverse=True.
sorted_Ascending(fs) ==
    {order \in [1..Cardinality(fs) -> fs] :
        /\ \A i, j \in DOMAIN order : i # j => order[i] # order[j]
        /\ \A i, j \in DOMAIN order : i < j => order[i].mtime <= order[j].mtime}
\* sorted(glob.glob(pattern), key=os.path.getmtime, reverse=True): the lists
\* of the files with no mtime before a later one; glob gives the files in
\* any order and the sort is stable, so files of equal mtime come in any
\* order.
sorted(fs) ==
    {order \in [1..Cardinality(fs) -> fs] :
        /\ \A i, j \in DOMAIN order : i # j => order[i] # order[j]
        /\ \A i, j \in DOMAIN order : i < j => order[i].mtime >= order[j].mtime}
\* backups[keep:]
to_remove(order, keep) == SubSeq(order, keep + 1, Len(order))

\* create_sqlite_backup(db_path, backup_dir, prefix): the file is named after
\* the second it is started in (same_second: the second of the backup
\* before) and is written after every file that is there; a file of that
\* name is overwritten.
create_sqlite_backup(dir, file) ==
    {f \in dir : ~(f.prefix = file.prefix /\ f.stamp = file.stamp)} \cup {file}

BackupOutcome(u, prefix, keep, removed, r) ==
    [op |-> "backup", user |-> u, target |-> 0, rid |-> 0, result |-> r,
     prefix |-> prefix, keep |-> keep, removed |-> removed]

\* The step of a backup that writes the file.
WriteBackup(u, prefix, keep, same_second) ==
    /\ clock.mtime + 1 \in BackupTimes
    /\ Idle # {}
    /\ clock' = [stamp |-> IF same_second THEN clock.stamp ELSE clock.stamp + 1,
                 mtime |-> clock.mtime + 1]
    /\ backups' = create_sqlite_backup(backups,
                      [prefix |-> prefix, stamp |-> clock'.stamp,
                       mtime |-> clock'.mtime])
    /\ pc' = [pc EXCEPT ![FreeWorker] = "prune"]
    /\ loc' = [loc EXCEPT ![FreeWorker] =
                   [user |-> u, target |-> 0, rid |-> 0, prefix |-> prefix,
                    keep |-> keep]]
    /\ UNCHANGED last

\* create_backup_now, session user u, backup_keep the value of BACKUP_KEEP:
\* SELECT role, is_admin, create_sqlite_backup.
BackupNowBegin(u, backup_keep, same_second) ==
    /\ IF ~is_admin(role, u)
       THEN /\ last' = BackupOutcome(u, WebPrefix, backup_keep, <<>>, "forbidden")
            /\ UNCHANGED <<pc, loc, backups, clock>>
       ELSE WriteBackup(u, WebPrefix,
                        IF 1 >= backup_keep THEN 1 ELSE backup_keep,
                        same_second)
    /\ UNCHANGED <<users, seq_users, known_contacts, connection_requests,
                   seq_requests, chat, role, approved, content>>

\* main of backup_sqlite.py with --prefix and --keep: the check of keep,
\* create_sqlite_backup.
ScriptBegin(prefix, keep, same_second) ==
    /\ IF keep < 1
       THEN /\ last' = BackupOutcome(0, prefix, keep, <<>>, "invalid_keep")
            /\ UNCHANGED <<pc, loc, backups, clock>>
       ELSE WriteBackup(0, prefix, keep, same_second)
    /\ UNCHANGED <<users, seq_users, known_contacts, connection_requests,
                   seq_requests, chat, role, approved, content>>

\* prune_old_backups(backup_dir, prefix, keep) and the answer of its caller.
Prune(w) ==
    /\ pc[w] = "prune"
    /\ \E order \in sorted(glob(backups, loc[w].prefix)) :
          /\ backups' = backups \ {f \in backups :
                  \E i \in DOMAIN to_remove(order, loc[w].keep) :
                      to_remove(order, loc[w].keep)[i] = f}
          /\ last' = BackupOutcome(loc[w].user, loc[w].prefix, loc[w].keep,
                                   to_remove(order, loc[w].keep), "ok")
    /\ pc' = [pc EXCEPT ![w] = "idle"]
    /\ loc' = [loc EXCEPT ![w] = NoLoc]
    /\ UNCHANGED <<users, seq_users, known_contacts, connection_requests,
                   seq_requests, chat, role, approved, content, clock>>

\* Backups: the three users of the feed, an empty backup directory; users
\* ask for backups and the script runs.
BackupNext ==
    \/ \E u \in SessionUsers, backup_keep \in KeepInputs, same_second \in BOOLEAN :
           BackupNowBegin(u, backup_keep, same_second)
    \/ \E prefix \in PrefixInputs, keep \in KeepInputs, same_second \in BOOLEAN :
           ScriptBegin(prefix, keep, same_second)
    \/ \E w \in Workers : Prune(w)

BackupSpec == ContentInit /\ [][BackupNext]_vars

----------------------------------------------------------------------------
\* C1: in every committed state the known-contact relation is symmetric: a
\* row (A,B) exists if and only if a row (B,A) exists, whatever the
\* interleaving of send, accept, reject, remove and account deletion.
C1_KnownContactsSymmetric ==
    \A e \in known_contacts : <<e[2], e[1]>> \in known_contacts

\* An accept has just committed the edge pair of users 1 and 2 while another
\* handler is between its first SELECT and its commit.
C1_Witness ==
    /\ last.op = "accept"
    /\ last.result = "accepted"
    /\ <<1, 2>> \in known_contacts
    /\ <<2, 1>> \in known_contacts
    /\ \E w \in Workers : pc[w] # "idle"

\* The known_contacts rows between two users, in either direction.
C2_RowsBetween(kc, a, b) == {e \in kc : {e[1], e[2]} = {a, b}}

\* C2: right after accept_connection_request by B commits on the request
\* A sent to B (A # B), canChat(A,B) and canChat(B,A) are both true and
\* exactly two known_contacts rows exist between them.
C2_AcceptConnectsBoth ==
    (last.op = "accept" /\ last.result = "accepted") =>
        LET A == last.target
            B == last.user
        IN  /\ A # B
            /\ can_users_chat(known_contacts, A, B)
            /\ can_users_chat(known_contacts, B, A)
            /\ Cardinality(C2_RowsBetween(known_contacts, A, B)) = 2

\* User 2 has just accepted the request user 1 sent: it is stored as accepted.
C2_Witness ==
    /\ last.op = "accept"
    /\ last.result = "accepted"
    /\ last.user = 2
    /\ last.target = 1
    /\ last.rid \in DOMAIN connection_requests
    /\ connection_requests[last.rid] =
           [requester_user_id |-> 1, receiver_user_id |-> 2, status |-> ACEITA]

\* C3: once a connection request is accepted or rejected its status never
\* changes again: a status changes only from pending, to accepted or to
\* rejected.
C3_TerminalStatusFinal ==
    [][\A r \in DOMAIN connection_requests \cap DOMAIN connection_requests' :
          connection_requests'[r].status # connection_requests[r].status =>
              /\ connection_requests[r].status = PENDENTE
              /\ connection_requests'[r].status \in {ACEITA, RECUSADA}]_vars

\* C4: a handler that marks a request accepted (accept_connection_request,
\* or the auto-accept of send_connection_request) acts on the committed
\* status: when it commits and the request is stored as rejected, the
\* request stays rejected and no known_contacts row is created.
C4_NoAcceptOfRejected ==
    [][\A w \in Workers :
          (/\ pc[w] \in {"accept_write", "send_accept"}
           /\ pc'[w] = "idle"
           /\ loc[w].rid \in DOMAIN connection_requests
           /\ connection_requests[loc[w].rid].status = RECUSADA)
          => /\ connection_requests' = connection_requests
             /\ known_contacts' = known_contacts]_vars

\* C5: right after send_connection_request(A -> B) took the auto-accept
\* path on the pending request B -> A, for users A and B that exist, that
\* request is accepted, both known_contacts rows exist and no pending
\* request exists between A and B in either direction.
C5_AutoAcceptLeavesNoPending ==
    (/\ last.op = "send"
     /\ last.result = "auto_accepted"
     /\ last.user \in users
     /\ last.target \in users)
    => /\ last.rid \in DOMAIN connection_requests
       /\ connection_requests[last.rid].status = ACEITA
       /\ <<last.user, last.target>> \in known_contacts
       /\ <<last.target, last.user>> \in known_contacts
       /\ PendingIds(connection_requests, last.user, last.target) = {}
       /\ PendingIds(connection_requests, last.target, last.user) = {}

\* What send_connection_request needs to reach its INSERT of a request.
C6_SendPrecondition(u, t) ==
    /\ u # t
    /\ t \in users
    /\ <<u, t>> \notin known_contacts
    /\ PendingIds(connection_requests, u, t) = {}
    /\ PendingIds(connection_requests, t, u) = {}

\* C6: when send_connection_request(requester -> receiver) reaches its
\* INSERT while requester # receiver, the receiver exists, no edge
\* requester -> receiver exists and no request is pending in either
\* direction, it inserts a new pending request and succeeds, also when an
\* earlier request requester -> receiver is stored as accepted or rejected.
C6_SendInsertsPending ==
    [][\A w \in Workers :
          (/\ pc[w] = "send_insert"
           /\ pc'[w] = "idle"
           /\ C6_SendPrecondition(loc[w].user, loc[w].target))
          => /\ last'.result = "sent"
             /\ \E r \in DOMAIN connection_requests' \ DOMAIN connection_requests :
                   connection_requests'[r] =
                       [requester_user_id |-> loc[w].user,
                        receiver_user_id |-> loc[w].target,
                        status |-> PENDENTE]]_vars

\* C7 as claimed: for any users A and B, right after remove_connection(A,B)
\* commits, canChat(A,B) is false.
C7_RemoveEndsChat_AnyPair ==
    last.op = "remove" =>
        ~can_users_chat(known_contacts, last.user, last.target)

\* C7 as amended: for any users A # B, right after remove_connection(A,B)
\* commits, canChat(A,B) is false.
C7_RemoveEndsChat ==
    (last.op = "remove" /\ last.user # last.target) =>
        ~can_users_chat(known_contacts, last.user, last.target)

\* User 1 has just removed the connection with user 2; both users still
\* exist and a request between them is stored as accepted, so the edge pair
\* had been created.
C7_Witness ==
    /\ last.op = "remove"
    /\ last.user = 1
    /\ last.target = 2
    /\ users = {1, 2}
    /\ \E r \in DOMAIN connection_requests : connection_requests[r].status = ACEITA
    /\ known_contacts = {}

\* C8: at most one pending connection request for each ordered
\* (requester, receiver) pair.
C8_OnePendingPerPair ==
    \A a \in UserIds, b \in UserIds :
        Cardinality(PendingIds(connection_requests, a, b)) <= 1

\* A second send for a pair with a pending request was just refused, and
\* requests are pending in both directions.
C8_Witness ==
    /\ last.op = "send"
    /\ last.result = "duplicate_pending"
    /\ PendingIds(connection_requests, last.user, last.target) # {}
    /\ PendingIds(connection_requests, last.target, last.user) # {}

\* A step in which reject_connection_request answers.
C9_RejectAnswers == last' # last /\ last'.op = "reject"

\* C9: reject_connection_request(requestId) by actingUser on a request that
\* does not exist, is not addressed to actingUser or is already accepted or
\* rejected answers "invalid or processed" and changes no request and no
\* edge; on a pending request addressed to actingUser it sets that request
\* to rejected, changes nothing else and creates no edge.
C9_RejectOnlyPending ==
    [][C9_RejectAnswers =>
          LET rid == last'.rid
              u == last'.user
          IN  IF /\ rid \in DOMAIN connection_requests
                 /\ connection_requests[rid].status = PENDENTE
                 /\ connection_requests[rid].receiver_user_id = u
              THEN /\ last'.result = "rejected"
                   /\ connection_requests' =
                          [connection_requests EXCEPT ![rid].status = RECUSADA]
                   /\ known_contacts' = known_contacts
              ELSE /\ last'.result = "invalid"
                   /\ connection_requests' = connection_requests
                   /\ known_contacts' = known_contacts]_vars

\* The receiver of an accepted request has just been refused its rejection,
\* and the edge pair of the acceptance is still there.
C9_Witness ==
    /\ last.op = "reject"
    /\ last.result = "invalid"
    /\ last.rid \in DOMAIN connection_requests
    /\ connection_requests[last.rid].status = ACEITA
    /\ connection_requests[last.rid].receiver_user_id = last.user
    /\ <<last.user, connection_requests[last.rid].requester_user_id>> \in known_contacts

\* C10: accept_connection_request(requestId) by actingUser goes on to its
\* writes only if, when it reads the request, the request exists, is pending
\* and actingUser is its receiver; otherwise it answers "invalid or
\* processed" and changes no request and no edge.  The user who accepts is
\* never the requester.
C10_AcceptOnlyByReceiver ==
    [][/\ \A w \in Workers :
             (pc[w] = "idle" /\ pc'[w] = "accept_write") =>
                 /\ loc'[w].rid \in DOMAIN connection_requests
                 /\ connection_requests[loc'[w].rid].status = PENDENTE
                 /\ connection_requests[loc'[w].rid].receiver_user_id = loc'[w].user
                 /\ connection_requests[loc'[w].rid].requester_user_id # loc'[w].user
       /\ (last' # last /\ last'.op = "accept" /\ last'.result = "invalid") =>
             /\ connection_requests' = connection_requests
             /\ known_contacts' = known_contacts
       /\ (last' # last /\ last'.op = "accept" /\ last'.result = "accepted") =>
             last'.user # last'.target]_vars

\* The requester of a pending request has just been refused accepting it.
C10_Witness ==
    /\ last.op = "accept"
    /\ last.result = "invalid"
    /\ last.rid \in DOMAIN connection_requests
    /\ connection_requests[last.rid].status = PENDENTE
    /\ connection_requests[last.rid].requester_user_id = last.user
    /\ known_contacts = {}

\* A step in which send_connection_request answers.
C11_SendAnswers == last' # last /\ last'.op = "send"

\* C11: send_connection_request(requester -> receiver) answers SelfTarget
\* when requester = receiver, NotFound when the users row of the receiver is
\* missing, AlreadyConnected when the row requester -> receiver is in
\* known_contacts and DuplicatePending when a pending request requester ->
\* receiver is stored, each judged on the state the handler reads and in
\* this order; every one of these answers leaves users, known_contacts and
\* connection_requests unchanged.
C11_SendFailures ==
    [][/\ C11_SendAnswers =>
             LET u == last'.user
                 t == last'.target
             IN  /\ (u = t) <=> (last'.result = "self_target")
                 /\ last'.result = "not_found" => t \notin users
                 /\ last'.result = "already_connected" =>
                        <<u, t>> \in known_contacts
                 /\ last'.result = "duplicate_pending" =>
                        \E r \in DOMAIN connection_requests :
                            connection_requests[r] =
                                [requester_user_id |-> u,
                                 receiver_user_id |-> t,
                                 status |-> PENDENTE]
                 /\ last'.result \in {"self_target", "not_found",
                                      "already_connected", "duplicate_pending"}
                        => db' = db
       /\ \A w \in Workers :
             /\ (pc[w] = "idle" /\ pc'[w] = "send_known") =>
                    /\ loc'[w].target \in users
                    /\ loc'[w].target # loc'[w].user
             /\ (/\ pc[w] = "send_known"
                 /\ pc'[w] # pc[w]
                 /\ <<loc[w].user, loc[w].target>> \in known_contacts)
                => last'.result = "already_connected"
             /\ (/\ pc[w] = "send_same"
                 /\ pc'[w] # pc[w]
                 /\ \E r \in DOMAIN connection_requests :
                       connection_requests[r] =
                           [requester_user_id |-> loc[w].user,
                            receiver_user_id |-> loc[w].target,
                            status |-> PENDENTE])
                => last'.result = "duplicate_pending"]_vars

\* A send to a user who is already a known contact was just refused; the
\* request that made them contacts is stored as accepted.
C11_Witness ==
    /\ last.op = "send"
    /\ last.result = "already_connected"
    /\ <<last.user, last.target>> \in known_contacts
    /\ \E r \in DOMAIN connection_requests : connection_requests[r].status = ACEITA

\* C12: when two accept paths for the same pair run at the same time (two
\* accept_connection_request, or one together with the auto-accept path of
\* send_connection_request), neither raises a uniqueness violation: each
\* completes as accepted with both known_contacts rows stored.
C12_AcceptPathsIdempotent ==
    [][\A w \in Workers :
          (pc[w] \in {"accept_write", "send_accept"} /\ pc'[w] = "idle")
          => /\ last'.result \in {"accepted", "auto_accepted"}
             /\ <<loc[w].user, loc[w].target>> \in known_contacts'
             /\ <<loc[w].target, loc[w].user>> \in known_contacts']_vars

\* C13: get_or_create_dm(A, B), A # B as create_or_open_dm calls it, called
\* twice in a row with nothing committed in between, in the same or in the
\* opposite argument order, returns the same conversation id both times, and
\* the second call inserts no conversations and no conversation_members row.
C13_DmTwiceSame ==
    \A a \in ChatUserIds, b \in ChatUserIds :
        a # b =>
            LET r1 == get_or_create_dm(conversations, conversation_members,
                                       seq_conversations, a, b)
                r2 == get_or_create_dm(r1.conversations, r1.conversation_members,
                                       r1.seq, b, a)
                r3 == get_or_create_dm(r1.conversations, r1.conversation_members,
                                       r1.seq, a, b)
            IN  /\ r2.id = r1.id
                /\ r3.id = r1.id
                /\ r2.conversations = r1.conversations
                /\ r3.conversations = r1.conversations
                /\ r2.conversation_members = r1.conversation_members
                /\ r3.conversation_members = r1.conversation_members

\* User 2 has just opened, by create_or_open_dm, the direct conversation that
\* user 1 created with user 2: the second call, in the opposite order.
C13_Witness ==
    /\ last.op = "dm"
    /\ last.result = "opened"
    /\ last.user = 2
    /\ last.target = 1
    /\ last.rid \in DOMAIN conversations
    /\ conversations[last.rid].type = "dm"
    /\ conversations[last.rid].created_by_user_id = 1
    /\ Cardinality({c \in DOMAIN conversations : conversations[c].type = "dm"}) = 1

\* C14: in every reachable state, also after two create_or_open_dm requests
\* for the same pair {A, B} were handled at the same time, at most one
\* direct conversation exists whose members are A and B.
C14_OneDmPerPair ==
    \A a \in ChatUserIds, b \in ChatUserIds :
        a # b =>
            Cardinality({c \in DOMAIN conversations :
                            /\ conversations[c].type = "dm"
                            /\ {e[2] : e \in {m \in conversation_members : m[1] = c}}
                                   = {a, b}}) <= 1

\* The number of characters of a posted name that are not blanks (the names
\* posted carry blanks only at their ends).
C15_TrimmedLen(name) == Cardinality({i \in DOMAIN name : name[i] # " "})
\* The distinct members of a posted list other than the creator.
C15_Others(u, member_ids) == {member_ids[i] : i \in DOMAIN member_ids} \ {u}

\* C15: create_group_chat answers NameTooShort exactly when the trimmed name
\* has fewer than 3 characters (a name of 3 is accepted), otherwise
\* InsufficientMembers when fewer than 2 distinct members other than the
\* creator are listed, otherwise NotConnected when all listed members exist
\* and one of them is not a known contact of the creator; a request is let
\* through to the INSERTs only with a name of at least 3 characters and at
\* least 2 other members that are all known contacts; and every refused
\* request leaves conversations and conversation_members unchanged.
C15_GroupFailures ==
    [][/\ (last' # last /\ last'.op = "group" /\ last'.result # "created") =>
             LET u == last'.user
                 n == C15_TrimmedLen(last'.name)
                 others == C15_Others(u, last'.member_ids)
             IN  /\ (n < 3) <=> (last'.result = "name_too_short")
                 /\ (n >= 3 /\ Cardinality(others) < 2)
                        <=> (last'.result = "insufficient_members")
                 /\ (/\ n >= 3
                     /\ Cardinality(others) >= 2
                     /\ others \subseteq users
                     /\ \E m \in others : <<u, m>> \notin known_contacts)
                        => last'.result = "not_connected"
                 /\ last'.result = "not_connected" =>
                        \E m \in others : <<u, m>> \notin known_contacts
                 /\ chat' = chat
       /\ \A w \in Workers :
             (pc[w] = "idle" /\ pc'[w] = "group_write") =>
                 /\ Len(loc'[w].name) >= 3
                 /\ Cardinality(loc'[w].members) >= 2
                 /\ \A m \in loc'[w].members :
                        <<loc'[w].user, m>> \in known_contacts]_vars

\* A name of two characters between blanks was just refused as too short,
\* and a group with a name of exactly three characters is stored.
C15_Witness ==
    /\ last.op = "group"
    /\ last.result = "name_too_short"
    /\ last.name = <<" ", "a", "b", " ">>
    /\ \E c \in DOMAIN conversations :
          /\ conversations[c].type = "group"
          /\ Len(conversations[c].name) = 3

\* C16: create_group_chat answers UnknownMember whenever a listed member id
\* (other than the creator's) has no users row, whatever the other ids of
\* the list are, also when another listed member exists but is not a known
\* contact of the creator.
C16_UnknownMemberFirst ==
    [][(/\ last' # last
        /\ last'.op = "group"
        /\ last'.result # "created"
        /\ C15_TrimmedLen(last'.name) >= 3
        /\ Cardinality(C15_Others(last'.user, last'.member_ids)) >= 2
        /\ \E m \in C15_Others(last'.user, last'.member_ids) : m \notin users)
       => last'.result = "unknown_member"]_vars

\* A conteudo of blanks only, or of nothing.
C17_Blank(conteudo) == \A i \in DOMAIN conteudo : conteudo[i] = " "

\* C17: send_chat_message answers NotAMember unless the sender is a member
\* of the conversation when the handler reads the membership, and answers
\* EmptyMessage when the sender is a member, no file is attached and the
\* trimmed text is empty; every refusal inserts no message.  A request goes
\* on to the INSERT only for a member and with a non-empty trimmed text or a
\* stored file, so every stored message has a text or a file reference.
C17_PostFailures ==
    [][/\ (last' # last /\ last'.op = "post" /\ last'.result # "posted") =>
             /\ (<<last'.target, last'.user>> \notin conversation_members)
                    <=> (last'.result = "not_a_member")
             /\ (/\ <<last'.target, last'.user>> \in conversation_members
                 /\ last'.file = "none"
                 /\ C17_Blank(last'.conteudo))
                    <=> (last'.result = "empty_message")
             /\ messages' = messages
             /\ seq_messages' = seq_messages
       /\ \A w \in Workers :
             (pc[w] = "idle" /\ pc'[w] = "post_write") =>
                 /\ loc'[w].target \in DOMAIN conversations
                 /\ <<loc'[w].target, loc'[w].user>> \in conversation_members
                 /\ \/ loc'[w].texto # <<>> /\ loc'[w].texto[1] # " "
                    \/ loc'[w].file_url # NULL
       /\ \A m \in DOMAIN messages' :
             messages'[m].conteudo # NULL \/ messages'[m].file_url # NULL]_vars

\* A text of one blank without a file was just refused as empty, posted by
\* a member of the conversation in which a message with a file and no text
\* is stored.
C17_Witness ==
    /\ last.op = "post"
    /\ last.result = "empty_message"
    /\ last.conteudo = <<" ">>
    /\ <<last.target, last.user>> \in conversation_members
    /\ \E m \in DOMAIN messages :
          /\ messages[m].conversation_id = last.target
          /\ messages[m].conteudo = NULL
          /\ messages[m].file_url # NULL

\* C18: the unread count of user A in conversation C is the number of
\* messages of C above A's read cursor that A did not write: when chat_page
\* commits the cursor of A for C it is the id of the last message of the
\* list it loaded and, no message having been inserted since, the count is
\* 0; a message committed by B raises the count of every other user by one
\* and leaves B's own count as it was.
C18_UnreadCount ==
    [][\A w \in Workers :
          /\ (pc[w] = "open_write" /\ pc'[w] = "idle") =>
                /\ read_cursor(conversation_reads', loc[w].target, loc[w].user)
                       = loc[w].rid
                /\ loc[w].seen = seq_messages =>
                       unread_count(messages', conversation_reads',
                                    loc[w].target, loc[w].user) = 0
          /\ (pc[w] = "post_write" /\ pc'[w] = "idle") =>
                \A A \in ChatUserIds :
                    unread_count(messages', conversation_reads', loc[w].target, A)
                        = unread_count(messages, conversation_reads, loc[w].target, A)
                              + (IF A = loc[w].user THEN 0 ELSE 1)]_vars

\* C19: only a member of conversation C has C's messages loaded by
\* chat_page, has a read cursor written for C or inserts a message into C,
\* each judged on the committed state at that step, and
\* get_user_conversations lists C only for its members.
C19_MembersOnly ==
    [][/\ \A w \in Workers :
             /\ (pc[w] = "idle" /\ pc'[w] = "open_write") =>
                    <<loc'[w].target, loc'[w].user>> \in conversation_members
             /\ (pc[w] \in {"open_write", "post_write"} /\ pc'[w] = "idle") =>
                    <<loc[w].target, loc[w].user>> \in conversation_members
       /\ \A u \in ChatUserIds :
             \A c \in get_user_conversations(conversations, conversation_members, u) :
                 <<c, u>> \in conversation_members]_vars


\* C20: right after delete_user_account_data(U) commits, no row of any table
\* carries U's id: no known_contacts row, connection request, read cursor,
\* message or conversation_members row, and no conversations row names U as
\* its creator.
C20_DeleteLeavesNoReference ==
    last.op = "delete" =>
        LET U == last.user
        IN  /\ U \notin users
            /\ \A e \in known_contacts : e[1] # U /\ e[2] # U
            /\ \A r \in DOMAIN connection_requests :
                  /\ connection_requests[r].requester_user_id # U
                  /\ connection_requests[r].receiver_user_id # U
            /\ \A k \in DOMAIN conversation_reads : k[2] # U
            /\ \A m \in DOMAIN messages : messages[m].sender_user_id # U
            /\ \A e \in conversation_members : e[2] # U
            /\ \A c \in DOMAIN conversations :
                  conversations[c].created_by_user_id # U

----------------------------------------------------------------------------
\* C21: when the account of U is deleted, the state it leaves has no post,
\* comment or like authored by U, and no comment, like or report that
\* references one of the posts of U that were deleted.
C21_DeleteLeavesNoContent ==
    [][(last' # last /\ last'.op = "delete") =>
        LET U == last'.user
            gone == OwnPosts(posts, U)
        IN  /\ OwnPosts(posts', U) = {}
            /\ OwnComments(comments', U) = {}
            /\ \A e \in post_likes' : e[2] # U
            /\ gone \cap DOMAIN posts' = {}
            /\ \A c \in DOMAIN comments' : comments'[c].post_id \notin gone
            /\ \A e \in post_likes' : e[1] \notin gone
            /\ \A r \in DOMAIN reports' :
                  ~(/\ reports'[r].target_type = "post"
                    /\ reports'[r].target_id \in gone)]_vars

\* The account of the member was deleted with its post, on which the leader
\* had a comment, a like and two reports.
C21_Witness ==
    /\ last.op = "delete"
    /\ last.user = 3
    /\ last.target = 1
    /\ last.rid >= 4
    /\ posts = <<>>
    /\ comments = <<>>
    /\ post_likes = {}
    /\ reports = <<>>

----------------------------------------------------------------------------
\* The users with a conversation_members row of conversation c.
C22_Members(cm, c) == {e[2] : e \in {x \in cm : x[1] = c}}
\* The direct conversations of U and one other user that hold messages.
C22_DmsWithMessages(U) ==
    {c \in DOMAIN conversations :
        /\ conversations[c].type = "dm"
        /\ U \in C22_Members(conversation_members, c)
        /\ Cardinality(C22_Members(conversation_members, c)) = 2
        /\ \E m \in DOMAIN messages : messages[m].conversation_id = c}

\* C22 as stated: when the account of U is deleted while U is in a direct
\* conversation with V that holds messages, the conversation is left with V
\* as its only member, and, V having been the only other member, the
\* conversations row is gone.
C22_DmLeftToOther_RowGone ==
    [][(last' # last /\ last'.op = "delete") =>
        \A c \in C22_DmsWithMessages(last'.user) :
            /\ C22_Members(conversation_members', c) =
                   C22_Members(conversation_members, c) \ {last'.user}
            /\ c \notin DOMAIN conversations']_vars

\* C22: when the account of U is deleted while U is in a direct conversation
\* with V that holds messages, the conversation is left with V as its only
\* member and its conversations row stays as it was; the row of a
\* conversation goes only when U was its last member.
C22_DmLeftToOther ==
    [][(last' # last /\ last'.op = "delete") =>
        /\ \A c \in C22_DmsWithMessages(last'.user) :
              /\ C22_Members(conversation_members', c) =
                     C22_Members(conversation_members, c) \ {last'.user}
              /\ Cardinality(C22_Members(conversation_members', c)) = 1
              /\ c \in DOMAIN conversations'
              /\ conversations'[c] = conversations[c]
        /\ \A c \in DOMAIN conversations :
              C22_Members(conversation_members, c) = {last'.user} =>
                  c \notin DOMAIN conversations']_vars

\* The account of user 1 was deleted; the direct conversation of 1 and 2 is
\* still there with user 2 as its only member and a message of user 2.
C22_Witness ==
    /\ last.op = "delete"
    /\ last.user = 1
    /\ 1 \in DOMAIN conversations
    /\ conversations[1].type = "dm"
    /\ C22_Members(conversation_members, 1) = {2}
    /\ \E m \in DOMAIN messages :
          messages[m].conversation_id = 1 /\ messages[m].sender_user_id = 2

----------------------------------------------------------------------------
\* Every conversations row has a conversation_members row.
C23_HasMember ==
    \A c \in DOMAIN conversations : C22_Members(conversation_members, c) # {}

\* C23: in every state reached by opening direct conversations, creating
\* groups and deleting role, approved, every conversations row has at least one
\* member; the deletion of the account of U removes exactly the conversations
\* whose only member was U and leaves every other conversations row as it
\* was.
C23_NoEmptyConversation ==
    /\ []C23_HasMember
    /\ [][(last' # last /\ last'.op = "delete") =>
            /\ DOMAIN conversations \ DOMAIN conversations' =
                   {c \in DOMAIN conversations :
                       C22_Members(conversation_members, c) = {last'.user}}
            /\ \A c \in DOMAIN conversations' :
                   /\ c \in DOMAIN conversations
                   /\ conversations'[c] = conversations[c]
                   /\ C22_Members(conversation_members', c) =
                          C22_Members(conversation_members, c) \ {last'.user}]_vars

\* An account was deleted: a direct conversation that lost its last member
\* is gone, and a group stays with the members it still has.
C23_Witness ==
    /\ last.op = "delete"
    /\ \E c \in 1..seq_conversations : c \notin DOMAIN conversations
    /\ \E c \in DOMAIN conversations :
          /\ conversations[c].type = "group"
          /\ Cardinality(C22_Members(conversation_members, c)) = 1

----------------------------------------------------------------------------
\* C24: remove_report_target by a leader or an admin deletes the reported
\* target with everything that depends on it (a post with its comments, its
\* likes and the other reports on it; a comment with its reports) and leaves
\* the report it was called for present with status resolved.
C24_RemoveKeepsReportResolved ==
    [][(/\ last' # last
        /\ last'.op = "remove_target"
        /\ last'.result \in {"post", "comment"}) =>
        LET target_id == last'.target
            report_id == last'.rid
        IN  /\ IF last'.result = "post"
               THEN /\ target_id \notin DOMAIN posts'
                    /\ \A c \in DOMAIN comments' : comments'[c].post_id # target_id
                    /\ \A e \in post_likes' : e[1] # target_id
               ELSE target_id \notin DOMAIN comments'
            /\ \A r \in DOMAIN reports' \ {report_id} :
                  ~(/\ reports'[r].target_type = last'.result
                    /\ reports'[r].target_id = target_id)
            /\ report_id \in DOMAIN reports'
            /\ reports'[report_id].status = RESOLVIDO]_vars

----------------------------------------------------------------------------
\* The acting user has a users row with role leader or admin.
C25_LeaderOrAdmin(u) ==
    \E i \in DOMAIN role : i = u /\ (role[i] = LIDER \/ role[i] = ADMIN)

\* C25: resolve_report and remove_report_target change no table when the
\* acting user is neither leader nor admin; resolve_report by a leader or an
\* admin sets the status of the report to resolved and leaves the posts, the
\* comments, the likes and the other reports as they are; a report that is
\* resolved never goes back to open.
C25_ModerationGuard ==
    [][/\ (/\ last' # last
           /\ last'.op \in {"resolve", "remove_target"}
           /\ ~C25_LeaderOrAdmin(last'.user)) =>
              /\ last'.result = "forbidden"
              /\ UNCHANGED db
       /\ (/\ last' # last
           /\ last'.op = "resolve"
           /\ C25_LeaderOrAdmin(last'.user)) =>
              /\ last'.result = "resolved"
              /\ DOMAIN reports' = DOMAIN reports
              /\ \A r \in DOMAIN reports :
                    reports'[r] = IF r = last'.rid
                                  THEN [reports[r] EXCEPT !.status = RESOLVIDO]
                                  ELSE reports[r]
              /\ UNCHANGED <<posts, comments, post_likes>>
       /\ \A r \in DOMAIN reports \cap DOMAIN reports' :
              reports[r].status = RESOLVIDO => reports'[r].status = RESOLVIDO]_vars

\* The leader resolved an open report on a post that is still there with its
\* comment and a like, and the member was refused before.
C25_Witness ==
    /\ last.op = "resolve"
    /\ last.result = "resolved"
    /\ last.rid \in DOMAIN reports
    /\ reports[last.rid].status = RESOLVIDO
    /\ reports[last.rid].target_type = "post"
    /\ reports[last.rid].target_id \in DOMAIN posts
    /\ \E c \in DOMAIN comments : comments[c].post_id = reports[last.rid].target_id
    /\ \E e \in post_likes : e[1] = reports[last.rid].target_id
    /\ \E r \in DOMAIN reports : reports[r].status = ABERTO

----------------------------------------------------------------------------
\* C29: a message is inserted into a direct conversation only while the
\* members of the conversation are known contacts of each other; after
\* remove_connection between A and B neither of them posts a further message
\* into their direct conversation.
C29_PostOnlyBetweenContacts ==
    [][\A m \in DOMAIN messages' \ DOMAIN messages :
          LET c == messages'[m].conversation_id
          IN  (c \in DOMAIN conversations /\ conversations[c].type = "dm") =>
                  \A a, b \in C22_Members(conversation_members, c) :
                      a # b => <<a, b>> \in known_contacts]_vars

----------------------------------------------------------------------------
\* C30: whenever a post is removed together with its comments (by
\* delete_post, by remove_report_target on a report of the post, or by the
\* deletion of the account of its author), no report remains whose target is
\* one of the comments deleted with the post.
C30_NoReportOnDeletedComment ==
    [][\A p \in DOMAIN posts \ DOMAIN posts' :
          \A c \in DOMAIN comments :
             comments[c].post_id = p =>
                /\ c \notin DOMAIN comments'
                /\ \A r \in DOMAIN reports' :
                      ~(/\ reports'[r].target_type = "comment"
                        /\ reports'[r].target_id = c)]_vars

----------------------------------------------------------------------------
\* C26: a registration creates an approved user with role admin if and only
\* if it creates the first user ever; every later registration creates a
\* member that is not approved, also when two registrations run at the same
\* time on an empty store.
C26_OnlyFirstUserIsAdmin ==
    [][\A i \in users' \ users :
          IF seq_users = 0
          THEN role'[i] = ADMIN /\ approved'[i] = 1
          ELSE role'[i] = MEMBRO /\ approved'[i] = 0]_vars

----------------------------------------------------------------------------
\* C28: whenever at least one user exists, at least one user has role admin.
C28_SomeAdmin ==
    users # {} => \E u \in users : role[u] = ADMIN

----------------------------------------------------------------------------
\* The smaller of two numbers.
C27_Min(a, b) == IF a <= b THEN a ELSE b

\* C27: prune_old_backups with keep >= 1 removes only files that match the
\* prefix and leaves min(keep, n) of the n that match; no file it removes is
\* newer than one it keeps; the list it returns holds exactly the files
\* removed, each once; the backup written last before the pruning is not
\* removed.
C27_PruneKeepsNewest ==
    [][\A w \in Workers : (pc[w] = "prune" /\ pc'[w] = "idle") =>
          LET matching == glob(backups, loc[w].prefix)
              removed == backups \ backups'
              kept == matching \cap backups'
          IN  /\ loc[w].keep >= 1
              /\ backups' \subseteq backups
              /\ removed \subseteq matching
              /\ Cardinality(kept) = C27_Min(loc[w].keep, Cardinality(matching))
              /\ \A r \in removed : \A k \in kept : r.mtime <= k.mtime
              /\ {last'.removed[i] : i \in DOMAIN last'.removed} = removed
              /\ Len(last'.removed) = Cardinality(removed)
              /\ \A f \in matching : f.mtime = clock.mtime => f \in backups']_vars

\* A pruning of the script with keep 2 removed one backup of its prefix and
\* left the two newer ones, the one just written among them, and a file that
\* does not match the prefix.
C27_Witness ==
    /\ last.op = "backup"
    /\ last.result = "ok"
    /\ last.prefix # WebPrefix
    /\ last.keep = 2
    /\ Len(last.removed) = 1
    /\ Cardinality(glob(backups, last.prefix)) = 2
    /\ \E f \in backups : f.prefix = last.prefix /\ f.mtime = clock.mtime
    /\ backups \ glob(backups, last.prefix) # {}

====
